---- MODULE Spec2Model ----
(***************************************************************************)
(* Model of the academic-records chaincode                                 *)
(* (src/chaincode/academic-records/src/main.go).                           *)
(*                                                                         *)
(* The world state is one key-value store shared by Students,              *)
(* AcademicRecords, Certificates and AuditLogs.  A stored value is the     *)
(* JSON object the handler marshalled: a record whose fields are the JSON  *)
(* member names of the Go struct.  json.Unmarshal into a struct keeps the  *)
(* members the struct declares, gives every other field its zero value     *)
(* and drops the members the struct does not declare.                      *)
(*                                                                         *)
(* A handler is an operator from the committed world state, the calling    *)
(* identity, the arguments and the clock readings to a result              *)
(* [err, verified, writes]; the ledger commits the write-set only when     *)
(* the handler returned no error.                                          *)
(*                                                                         *)
(* pending and chain hold the transactions that were simulated and wait    *)
(* for ordering, and the ordered transactions with their validation flag.  *)
(* Only SpecMVCC separates simulation from commit; the other               *)
(* specifications run a transaction in one step and leave both alone.      *)
(*                                                                         *)
(* students is the list the REST API keeps in data/students.json           *)
(* (student-storage.service.ts); the ledger's handlers never touch it.     *)
(*                                                                         *)
(* fabric is the state of the web tier's FabricService object (isConnected *)
(* and whether gateway and contract are set), certificates the content of  *)
(* data/certificates.json, requests the generateCertificate requests that  *)
(* are suspended at an await, and records the content of                   *)
(* data/academic-records.json.                                             *)
(***************************************************************************)
EXTENDS Integers, Sequences, FiniteSets, TLC

VARIABLES world, clock, txCount, last, pending, chain, students, fabric,
          certificates, requests, records

vars == <<world, clock, txCount, last, pending, chain, students, fabric,
          certificates, requests, records>>

---------------------------------------------------------------------------
(* Bounds of the model *)

\* number of committed transactions a behaviour of Spec holds
MaxTx == 3
\* number of committed transactions a behaviour of SpecRecords holds
MaxRecordTx == 4
\* number of committed transactions a behaviour of SpecFaults holds
MaxFaultTx == 2
\* number of committed transactions a behaviour of SpecCertificates holds
MaxCertificateTx == 3
\* number of committed transactions a behaviour of SpecNodes holds
MaxNodeTx == 2
\* number of transactions submitted in a behaviour of SpecMVCC
MaxSubmitted == 3
\* number of committed transactions a behaviour of SpecService holds
MaxServiceTx == 2
\* number of committed transactions a behaviour of SpecReads holds
MaxReadTx == 2
\* number of requests that change the stored students in SpecRest
MaxRestTx == 2
\* number of FabricService calls in a behaviour of SpecFabric
MaxFabricCalls == 4
\* number of generateCertificate requests in a behaviour of SpecGenerate
MaxRequests == 2
\* number of calls on the web tier's record store in a behaviour of SpecStore
MaxStoreCalls == 3
\* number of courses of a list given to calculateSGPA in SpecSGPA
MaxCourses == 2

\* time.RFC3339 keeps whole seconds: clock ticks per formatted second
TicksPerSecond == 2

---------------------------------------------------------------------------
(* Inputs *)

NIT == "NITWarangalMSP"
DEPT == "DepartmentsMSP"
VERIFIERS == "VerifiersMSP"

Orgs == {NIT, DEPT, VERIFIERS}

\* the identity the transaction context resolves for the caller
Identities == {[org |-> o, idErr |-> FALSE] : o \in Orgs}

\* a caller enrolled with an organization the chaincode does not name, and a
\* caller whose identity cannot be read
Outsider == [org |-> "PublicMSP", idErr |-> FALSE]
Unidentified == [org |-> "", idErr |-> TRUE]
Callers == Identities \cup {Outsider, Unidentified}

\* ids a caller passes as studentID, recordID or certificateID
IDs == {"ID1", "ID2"}
Names == {"Jane"}
Emails == {"jane@x.edu"}
Departments == {"CSE"}
StatusArgs == {"GRADUATED"}
Semesters == {1}
Years == {2024}
CertTypes == {"DEGREE"}
CoursesJSONs == {"not json", "[{4,9},{3,8}]"}

\* the clock readings, in ticks: 1 lies inside a second, 2 starts the next one
Ticks == {1, 2}

\* n successive readings of time.Now(), none earlier than the last one seen
Readings(n) ==
    {s \in [1..n -> Ticks] : clock <= s[1] /\ \A i \in 1..(n-1) : s[i] <= s[i+1]}

---------------------------------------------------------------------------
(* Time and string helpers *)

\* time.Now().Format(time.RFC3339): second resolution
FormatRFC3339(t) == "T" \o ToString(t \div TicksPerSecond)

\* time.Now().String(): full resolution
TimeString(t) == "t" \o ToString(t)

\* time.Now().UnixNano()
UnixNano(t) == t

---------------------------------------------------------------------------
(* World state stub *)

EmptyWorld == [k \in {} |-> 0]

\* GetState(key) returns nil for a key that was never written
Exists(w, k) == k \in DOMAIN w

\* PutState(key, value) returns an error and writes nothing for the empty key,
\* which the shim rejects, and for a key the peer refuses in this transaction
\* (ctx.refused); the write-set keeps the last value put under a key
PutFails(ctx, k) == k = "" \/ k \in ctx.refused

PutState(ctx, ws, k, v) == IF PutFails(ctx, k) THEN ws ELSE (k :> v) @@ ws

---------------------------------------------------------------------------
(* JSON: encoding/json on the four structs *)

StrField(v, f) == IF f \in DOMAIN v THEN v[f] ELSE ""
IntField(v, f) == IF f \in DOMAIN v THEN v[f] ELSE 0
ListField(v, f) == IF f \in DOMAIN v THEN v[f] ELSE <<>>

UnmarshalStudent(v) ==
    [studentId |-> StrField(v, "studentId"), name |-> StrField(v, "name"),
     email |-> StrField(v, "email"), department |-> StrField(v, "department"),
     enrollmentDate |-> StrField(v, "enrollmentDate"), status |-> StrField(v, "status"),
     createdBy |-> StrField(v, "createdBy"), createdAt |-> StrField(v, "createdAt")]

UnmarshalRecord(v) ==
    [recordId |-> StrField(v, "recordId"), studentId |-> StrField(v, "studentId"),
     semester |-> IntField(v, "semester"), year |-> IntField(v, "year"),
     courses |-> ListField(v, "courses"), sgpa |-> IntField(v, "sgpa"),
     cgpa |-> IntField(v, "cgpa"), status |-> StrField(v, "status"),
     createdBy |-> StrField(v, "createdBy"), approvedBy |-> StrField(v, "approvedBy"),
     verifiedBy |-> StrField(v, "verifiedBy"), createdAt |-> StrField(v, "createdAt"),
     approvedAt |-> StrField(v, "approvedAt"), verifiedAt |-> StrField(v, "verifiedAt"),
     remarks |-> StrField(v, "remarks")]

UnmarshalAuditLog(v) ==
    [logId |-> StrField(v, "logId"), timestamp |-> StrField(v, "timestamp"),
     organization |-> StrField(v, "organization"), user |-> StrField(v, "user"),
     action |-> StrField(v, "action"), recordType |-> StrField(v, "recordType"),
     recordId |-> StrField(v, "recordId"), details |-> StrField(v, "details"),
     transactionId |-> StrField(v, "transactionId")]

UnmarshalCertificate(v) ==
    [certificateId |-> StrField(v, "certificateId"), studentId |-> StrField(v, "studentId"),
     certificationType |-> StrField(v, "certificationType"),
     issuedDate |-> StrField(v, "issuedDate"),
     certificateHash |-> StrField(v, "certificateHash"), qrCode |-> StrField(v, "qrCode"),
     status |-> StrField(v, "status"), issuedBy |-> StrField(v, "issuedBy"),
     verificationCount |-> IntField(v, "verificationCount"),
     createdAt |-> StrField(v, "createdAt")]

\* which struct a stored JSON object was marshalled from
IsStudentJSON(v) == "enrollmentDate" \in DOMAIN v
IsRecordJSON(v) == "courses" \in DOMAIN v
IsCertificateJSON(v) == "certificateHash" \in DOMAIN v
IsAuditJSON(v) == "logId" \in DOMAIN v

\* json.Unmarshal([]byte(coursesJSON), &courses)
UnmarshalCourses(s) ==
    CASE s = "[]" -> [err |-> FALSE, courses |-> <<>>]
      [] s = "[{4,9},{3,8}]" ->
            [err |-> FALSE,
             courses |-> <<[credits |-> 4, gradePoint |-> 9],
                           [credits |-> 3, gradePoint |-> 8]>>]
      [] OTHER -> [err |-> TRUE, courses |-> <<>>]

---------------------------------------------------------------------------
(* Helper functions of the chaincode *)

RECURSIVE SumPoints(_)
SumPoints(courses) ==
    IF courses = <<>> THEN 0
    ELSE Head(courses).gradePoint * Head(courses).credits + SumPoints(Tail(courses))

RECURSIVE SumCredits(_)
SumCredits(courses) ==
    IF courses = <<>> THEN 0
    ELSE Head(courses).credits + SumCredits(Tail(courses))

\* calculateSGPA, in hundredths: float64(int(sgpa*100)) / 100 truncates
calculateSGPA(courses) ==
    IF SumCredits(courses) = 0 THEN 0
    ELSE (SumPoints(courses) * 100) \div SumCredits(courses)

\* generateCertificateHash: SHA-256 over the concatenation, read at time t
generateCertificateHash(certificateID, studentID, t) ==
    "sha256(" \o certificateID \o studentID \o TimeString(t) \o ")"

\* getCreatorOrganization: the caller's MSP id, or an error
getCreatorOrganization(ctx) ==
    [err |-> ctx.idErr, mspID |-> IF ctx.idErr THEN "" ELSE ctx.org]

\* logAudit: the audit write added to the write-set ws; tn and ts are its two
\* clock readings.  Its own errors are discarded and it always returns nil.
logAudit(ws, ctx, action, recordType, recordID, details, tn, ts) ==
    LET logID == "audit_" \o ToString(UnixNano(tn)) \o "_" \o recordID
        auditLog == [logId |-> logID, timestamp |-> FormatRFC3339(ts),
                     organization |-> getCreatorOrganization(ctx).mspID, user |-> "", action |-> action,
                     recordType |-> recordType, recordId |-> recordID,
                     details |-> details, transactionId |-> ctx.txID]
    IN PutState(ctx, ws, logID, auditLog)

\* strings CreateCompositeKey rejects: not valid UTF-8, or holding U+0000
InvalidStrings == {"CS\\xffE"}

\* CreateCompositeKey returns an error when the object type or an attribute is
\* such a string
CompositeKeyFails(objectType, attributes) ==
    \/ objectType \in InvalidStrings
    \/ \E i \in 1..Len(attributes) : attributes[i] \in InvalidStrings

\* the result of a handler
Fail(kind) == [err |-> kind, verified |-> FALSE, writes |-> EmptyWorld]
\* the result of a handler that returns an error after it put ws
FailAfter(kind, ws) == [err |-> kind, verified |-> FALSE, writes |-> ws]
Done(ws) == [err |-> "none", verified |-> FALSE, writes |-> ws]

---------------------------------------------------------------------------
(* Student management *)

\* NewStudent that forgets to stamp the creating organization
NewStudentUnstamped(studentID, name, email, department, creatorOrg, now) ==
    [studentId |-> studentID, name |-> name, email |-> email,
     department |-> department, enrollmentDate |-> FormatRFC3339(now[1]),
     status |-> "ACTIVE", createdBy |-> "",
     createdAt |-> FormatRFC3339(now[2])]

\* the Student object CreateStudent builds
NewStudent(studentID, name, email, department, creatorOrg, now) ==
    [studentId |-> studentID, name |-> name, email |-> email,
     department |-> department, enrollmentDate |-> FormatRFC3339(now[1]),
     status |-> "ACTIVE", createdBy |-> creatorOrg,
     createdAt |-> FormatRFC3339(now[2])]

\* CreateStudent without the check for an existing key
CreateStudentNoDuplicateCheck(w, ctx, now, studentID, name, email, department) ==
    LET creator == getCreatorOrganization(ctx)
        student == NewStudent(studentID, name, email, department, creator.mspID, now)
    IN IF creator.err THEN Fail("IdentityError")
       ELSE IF creator.mspID # "NITWarangalMSP" THEN Fail("AuthorizationError")
       ELSE IF PutFails(ctx, studentID) THEN Fail("StorageError")
       ELSE Done(logAudit(PutState(ctx, EmptyWorld, studentID, student), ctx,
                          "CreateStudent", "STUDENT", studentID,
                          "Created student " \o name, now[3], now[4]))

\* CreateStudent; CreateCompositeKey only builds a key string and writes nothing,
\* and its error is returned after the Student was put
CreateStudent(w, ctx, now, studentID, name, email, department) ==
    LET creator == getCreatorOrganization(ctx)
        student == NewStudent(studentID, name, email, department, creator.mspID, now)
    IN IF creator.err THEN Fail("IdentityError")
       ELSE IF creator.mspID # "NITWarangalMSP" THEN Fail("AuthorizationError")
       ELSE IF Exists(w, studentID) THEN Fail("DuplicateError")
       ELSE IF PutFails(ctx, studentID) THEN Fail("StorageError")
       ELSE IF CompositeKeyFails("student~department", <<department, studentID>>)
            THEN FailAfter("IndexError",
                           PutState(ctx, EmptyWorld, studentID, student))
       ELSE Done(logAudit(PutState(ctx, EmptyWorld, studentID, student), ctx,
                          "CreateStudent", "STUDENT", studentID,
                          "Created student " \o name, now[3], now[4]))

\* GetStudent: the stored value read as a Student
GetStudent(w, studentID) ==
    IF ~Exists(w, studentID)
    THEN [err |-> "NotFoundError", student |-> UnmarshalStudent(EmptyWorld)]
    ELSE [err |-> "none", student |-> UnmarshalStudent(w[studentID])]

\* UpdateStudentStatus; the error of PutState is discarded
UpdateStudentStatus(w, ctx, now, studentID, status) ==
    LET creator == getCreatorOrganization(ctx)
        got == GetStudent(w, studentID)
        student == [got.student EXCEPT !.status = status]
    IN IF creator.err THEN Fail("IdentityError")
       ELSE IF creator.mspID # "NITWarangalMSP" THEN Fail("AuthorizationError")
       ELSE IF got.err # "none" THEN Fail(got.err)
       ELSE Done(logAudit(PutState(ctx, EmptyWorld, studentID, student), ctx,
                          "UpdateStudentStatus", "STUDENT", studentID,
                          "Updated status to " \o status, now[1], now[2]))

---------------------------------------------------------------------------
(* Academic records *)

\* the AcademicRecord object CreateAcademicRecord builds
NewRecord(recordID, studentID, semester, year, courses, creatorOrg, now) ==
    [recordId |-> recordID, studentId |-> studentID, semester |-> semester,
     year |-> year, courses |-> courses, sgpa |-> calculateSGPA(courses),
     cgpa |-> 0, status |-> "SUBMITTED", createdBy |-> creatorOrg,
     approvedBy |-> "", verifiedBy |-> "", createdAt |-> FormatRFC3339(now[1]),
     approvedAt |-> "", verifiedAt |-> "", remarks |-> ""]

\* CreateAcademicRecord; the error of PutState is discarded
CreateAcademicRecord(w, ctx, now, recordID, studentID, semester, year, coursesJSON) ==
    LET creator == getCreatorOrganization(ctx)
        parsed == UnmarshalCourses(coursesJSON)
        record == NewRecord(recordID, studentID, semester, year, parsed.courses,
                            creator.mspID, now)
    IN IF creator.err THEN Fail("IdentityError")
       ELSE IF creator.mspID # "DepartmentsMSP" THEN Fail("AuthorizationError")
       ELSE IF GetStudent(w, studentID).err # "none" THEN Fail("NotFoundError")
       ELSE IF parsed.err THEN Fail("ValidationError")
       ELSE Done(logAudit(PutState(ctx, EmptyWorld, recordID, record), ctx,
                          "CreateAcademicRecord", "RECORD", recordID,
                          "Created record for student " \o studentID
                              \o ", semester " \o ToString(semester),
                          now[2], now[3]))

\* ApproveAcademicRecord without the check of the caller's organization
ApproveAcademicRecordAnyOrg(w, ctx, now, recordID) ==
    LET creator == getCreatorOrganization(ctx)
        record == [UnmarshalRecord(w[recordID]) EXCEPT
                       !.status = "APPROVED", !.approvedBy = creator.mspID,
                       !.approvedAt = FormatRFC3339(now[1])]
    IN IF creator.err THEN Fail("IdentityError")
       ELSE IF ~Exists(w, recordID) THEN Fail("NotFoundError")
       ELSE Done(logAudit(PutState(ctx, EmptyWorld, recordID, record), ctx,
                          "ApproveAcademicRecord", "RECORD", recordID,
                          "Record approved by NITWarangal", now[2], now[3]))

\* ApproveAcademicRecord; the errors of Unmarshal and PutState are discarded
ApproveAcademicRecord(w, ctx, now, recordID) ==
    LET creator == getCreatorOrganization(ctx)
        record == [UnmarshalRecord(w[recordID]) EXCEPT
                       !.status = "APPROVED", !.approvedBy = creator.mspID,
                       !.approvedAt = FormatRFC3339(now[1])]
    IN IF creator.err THEN Fail("IdentityError")
       ELSE IF creator.mspID # "NITWarangalMSP" THEN Fail("AuthorizationError")
       ELSE IF ~Exists(w, recordID) THEN Fail("NotFoundError")
       ELSE Done(logAudit(PutState(ctx, EmptyWorld, recordID, record), ctx,
                          "ApproveAcademicRecord", "RECORD", recordID,
                          "Record approved by NITWarangal", now[2], now[3]))

\* VerifyAcademicRecord that writes the record back without its courses
VerifyAcademicRecordDroppingCourses(w, ctx, now, recordID) ==
    LET creator == getCreatorOrganization(ctx)
        record == [UnmarshalRecord(w[recordID]) EXCEPT
                       !.status = "VERIFIED", !.verifiedBy = creator.mspID,
                       !.verifiedAt = FormatRFC3339(now[1]), !.courses = <<>>]
    IN IF creator.err THEN Fail("IdentityError")
       ELSE IF creator.mspID # "VerifiersMSP" THEN Fail("AuthorizationError")
       ELSE IF ~Exists(w, recordID) THEN Fail("NotFoundError")
       ELSE Done(logAudit(PutState(ctx, EmptyWorld, recordID, record), ctx,
                          "VerifyAcademicRecord", "RECORD", recordID,
                          "Record verified by external verifier", now[2], now[3]))

\* VerifyAcademicRecord; the errors of Unmarshal and PutState are discarded
VerifyAcademicRecord(w, ctx, now, recordID) ==
    LET creator == getCreatorOrganization(ctx)
        record == [UnmarshalRecord(w[recordID]) EXCEPT
                       !.status = "VERIFIED", !.verifiedBy = creator.mspID,
                       !.verifiedAt = FormatRFC3339(now[1])]
    IN IF creator.err THEN Fail("IdentityError")
       ELSE IF creator.mspID # "VerifiersMSP" THEN Fail("AuthorizationError")
       ELSE IF ~Exists(w, recordID) THEN Fail("NotFoundError")
       ELSE Done(logAudit(PutState(ctx, EmptyWorld, recordID, record), ctx,
                          "VerifyAcademicRecord", "RECORD", recordID,
                          "Record verified by external verifier", now[2], now[3]))

---------------------------------------------------------------------------
(* Certificates *)

\* the Certificate object IssueCertificate builds
NewCertificate(certificateID, studentID, certificationType, creatorOrg, now) ==
    [certificateId |-> certificateID, studentId |-> studentID,
     certificationType |-> certificationType,
     issuedDate |-> FormatRFC3339(now[2]),
     certificateHash |-> generateCertificateHash(certificateID, studentID, now[1]),
     qrCode |-> "https://verify.nit.edu/cert/" \o certificateID,
     status |-> "ISSUED", issuedBy |-> creatorOrg, verificationCount |-> 0,
     createdAt |-> FormatRFC3339(now[3])]

\* IssueCertificate; the error of PutState is discarded
IssueCertificate(w, ctx, now, certificateID, studentID, certificationType) ==
    LET creator == getCreatorOrganization(ctx)
        cert == NewCertificate(certificateID, studentID, certificationType,
                               creator.mspID, now)
    IN IF creator.err THEN Fail("IdentityError")
       ELSE IF creator.mspID # "NITWarangalMSP" THEN Fail("AuthorizationError")
       ELSE Done(logAudit(PutState(ctx, EmptyWorld, certificateID, cert), ctx,
                          "IssueCertificate", "CERTIFICATE", certificateID,
                          "Certificate issued to student " \o studentID,
                          now[4], now[5]))

\* VerifyCertificate open to the verifiers' organization only
VerifyCertificateVerifiersOnly(w, ctx, now, certificateID, certHash) ==
    LET creator == getCreatorOrganization(ctx)
        cert == UnmarshalCertificate(w[certificateID])
        counted == [cert EXCEPT !.verificationCount = @ + 1]
    IN IF creator.err THEN Fail("IdentityError")
       ELSE IF creator.mspID # "VerifiersMSP" THEN Fail("AuthorizationError")
       ELSE IF ~Exists(w, certificateID) THEN Done(EmptyWorld)
       ELSE IF cert.certificateHash # certHash THEN Done(EmptyWorld)
       ELSE [Done(logAudit(PutState(ctx, EmptyWorld, certificateID, counted), ctx,
                           "VerifyCertificate", "CERTIFICATE", certificateID,
                           "Certificate verified by external party",
                           now[1], now[2]))
             EXCEPT !.verified = TRUE]

\* VerifyCertificate that counts the verification but does not store the count
VerifyCertificateNoPersist(w, ctx, now, certificateID, certHash) ==
    LET cert == UnmarshalCertificate(w[certificateID])
    IN IF ~Exists(w, certificateID) THEN Done(EmptyWorld)
       ELSE IF cert.certificateHash # certHash THEN Done(EmptyWorld)
       ELSE [Done(logAudit(EmptyWorld, ctx,
                           "VerifyCertificate", "CERTIFICATE", certificateID,
                           "Certificate verified by external party",
                           now[1], now[2]))
             EXCEPT !.verified = TRUE]

\* VerifyCertificate: false is a result, never an error
VerifyCertificate(w, ctx, now, certificateID, certHash) ==
    LET cert == UnmarshalCertificate(w[certificateID])
        counted == [cert EXCEPT !.verificationCount = @ + 1]
    IN IF ~Exists(w, certificateID) THEN Done(EmptyWorld)
       ELSE IF cert.certificateHash # certHash THEN Done(EmptyWorld)
       ELSE [Done(logAudit(PutState(ctx, EmptyWorld, certificateID, counted), ctx,
                           "VerifyCertificate", "CERTIFICATE", certificateID,
                           "Certificate verified by external party",
                           now[1], now[2]))
             EXCEPT !.verified = TRUE]

---------------------------------------------------------------------------
(* The ledger: one action per transaction handler *)

\* the transaction context of the next transaction submitted by identity
\* in which the peer refuses the writes to the keys in refused
CtxRefusing(identity, refused) ==
    [org |-> identity.org, idErr |-> identity.idErr,
     txID |-> "tx" \o ToString(txCount + 1), refused |-> refused]

\* the context of a transaction in which the peer refuses no write
Ctx(identity) == CtxRefusing(identity, {})

\* hashes a caller of VerifyCertificate may supply
SuppliedHashes ==
    {"", "wronghash"} \cup
    {UnmarshalCertificate(world[k]).certificateHash : k \in DOMAIN world}

\* a ledger that commits the write-set of a handler that returned an error
TransactInKeepingWrites(op, ctx, id, args, now, r) ==
    LET wrote == r.writes # EmptyWorld
    IN /\ last.wrote
       /\ world' = IF wrote THEN r.writes @@ world ELSE world
       /\ clock' = IF wrote THEN now[Len(now)] ELSE clock
       /\ txCount' = IF wrote THEN txCount + 1 ELSE txCount
       /\ last' = [op |-> op, org |-> ctx.org, idErr |-> ctx.idErr,
                   id |-> id, args |-> args, err |-> r.err,
                   verified |-> r.verified, wrote |-> wrote,
                   refused |-> ctx.refused]
       /\ UNCHANGED <<pending, chain, students, fabric, certificates, requests, records>>

\* The ledger runs the handler and commits its write-set unless it failed.
\* A transaction that wrote nothing leaves world, clock and txCount as they
\* were, so whatever can follow it can follow the state before it: a behaviour
\* carries such a transaction as its last step only.
TransactIn(op, ctx, id, args, now, r) ==
    LET wrote == r.err = "none" /\ r.writes # EmptyWorld
    IN /\ last.wrote
       /\ world' = IF wrote THEN r.writes @@ world ELSE world
       /\ clock' = IF wrote THEN now[Len(now)] ELSE clock
       /\ txCount' = IF wrote THEN txCount + 1 ELSE txCount
       /\ last' = [op |-> op, org |-> ctx.org, idErr |-> ctx.idErr,
                   id |-> id, args |-> args, err |-> r.err,
                   verified |-> r.verified, wrote |-> wrote,
                   refused |-> ctx.refused]
       /\ UNCHANGED <<pending, chain, students, fabric, certificates, requests, records>>

Transact(op, identity, id, args, now, r) ==
    TransactIn(op, Ctx(identity), id, args, now, r)

CreateStudentTx ==
    \E identity \in Identities, now \in Readings(4), studentID \in IDs,
       name \in Names, email \in Emails, department \in Departments :
        Transact("CreateStudent", identity, studentID, <<name, email, department>>, now,
                 CreateStudent(world, Ctx(identity), now, studentID, name, email,
                               department))

UpdateStudentStatusTx ==
    \E identity \in Identities, now \in Readings(2), studentID \in IDs,
       status \in StatusArgs :
        Transact("UpdateStudentStatus", identity, studentID, <<status>>, now,
                 UpdateStudentStatus(world, Ctx(identity), now, studentID, status))

CreateAcademicRecordTx ==
    \E identity \in Identities, now \in Readings(3), recordID \in IDs,
       studentID \in IDs, semester \in Semesters, year \in Years,
       coursesJSON \in CoursesJSONs :
        Transact("CreateAcademicRecord", identity, recordID,
                 <<studentID, ToString(semester), ToString(year), coursesJSON>>, now,
                 CreateAcademicRecord(world, Ctx(identity), now, recordID, studentID,
                                      semester, year, coursesJSON))

ApproveAcademicRecordTx ==
    \E identity \in Identities, now \in Readings(3), recordID \in IDs :
        Transact("ApproveAcademicRecord", identity, recordID, <<>>, now,
                 ApproveAcademicRecord(world, Ctx(identity), now, recordID))

VerifyAcademicRecordTx ==
    \E identity \in Identities, now \in Readings(3), recordID \in IDs :
        Transact("VerifyAcademicRecord", identity, recordID, <<>>, now,
                 VerifyAcademicRecord(world, Ctx(identity), now, recordID))

IssueCertificateTx ==
    \E identity \in Identities, now \in Readings(5), certificateID \in IDs,
       studentID \in IDs, certificationType \in CertTypes :
        Transact("IssueCertificate", identity, certificateID,
                 <<studentID, certificationType>>, now,
                 IssueCertificate(world, Ctx(identity), now, certificateID, studentID,
                                  certificationType))

VerifyCertificateTx ==
    \E identity \in Identities, now \in Readings(2), certificateID \in IDs,
       certHash \in SuppliedHashes :
        Transact("VerifyCertificate", identity, certificateID, <<certHash>>, now,
                 VerifyCertificate(world, Ctx(identity), now, certificateID, certHash))

Init ==
    /\ world = EmptyWorld
    /\ clock = 0
    /\ txCount = 0
    /\ last = [op |-> "none", org |-> "", idErr |-> FALSE, id |-> "",
               args |-> <<>>, err |-> "none", verified |-> FALSE, wrote |-> TRUE,
               refused |-> {}]
    /\ pending = {}
    /\ chain = <<>>
    /\ students = <<>>
    /\ fabric = [isConnected |-> FALSE, gateway |-> FALSE, contract |-> FALSE]
    /\ certificates = <<>>
    /\ requests = <<>>
    /\ records = <<>>

Next ==
    \/ txCount < MaxTx /\ CreateStudentTx
    \/ txCount < MaxTx /\ UpdateStudentStatusTx
    \/ txCount < MaxTx /\ CreateAcademicRecordTx
    \/ txCount < MaxTx /\ ApproveAcademicRecordTx
    \/ txCount < MaxTx /\ VerifyAcademicRecordTx
    \/ txCount < MaxTx /\ IssueCertificateTx
    \/ txCount < MaxTx /\ VerifyCertificateTx

Spec == Init /\ [][Next]_vars

\* the life cycle of academic records, followed one committed transaction further
NextRecords ==
    \/ txCount < MaxRecordTx /\ CreateStudentTx
    \/ txCount < MaxRecordTx /\ CreateAcademicRecordTx
    \/ txCount < MaxRecordTx /\ ApproveAcademicRecordTx
    \/ txCount < MaxRecordTx /\ VerifyAcademicRecordTx

SpecRecords == Init /\ [][NextRecords]_vars

\* VerifyCertificate called by a member of any organization, the chaincode's
\* three or another one
VerifyCertificateAnyCallerTx ==
    \E identity \in Identities \cup {Outsider}, now \in Readings(2),
       certificateID \in IDs, certHash \in SuppliedHashes :
        Transact("VerifyCertificate", identity, certificateID, <<certHash>>, now,
                 VerifyCertificate(world, Ctx(identity), now, certificateID, certHash))

\* certificates: issuance, and the public verification endpoint
NextCertificates ==
    \/ txCount < MaxCertificateTx /\ IssueCertificateTx
    \/ txCount < MaxCertificateTx /\ VerifyCertificateAnyCallerTx

SpecCertificates == Init /\ [][NextCertificates]_vars

\* the keys logAudit may build for recordID
LogIDs(recordID) ==
    {"audit_" \o ToString(UnixNano(t)) \o "_" \o recordID : t \in Ticks}

\* the writes the peer may refuse in a transaction on id: the entity's, the
\* audit entry's, or both
Refusals(id) == {{id}, LogIDs(id), {id} \cup LogIDs(id)}

\* CreateStudent in a transaction whose PutState calls may return an error
CreateStudentRefusedTx ==
    \E identity \in Identities, now \in Readings(4), studentID \in IDs,
       name \in Names, email \in Emails, department \in Departments :
      \E refused \in Refusals(studentID) :
        TransactIn("CreateStudent", CtxRefusing(identity, refused), studentID,
                   <<name, email, department>>, now,
                   CreateStudent(world, CtxRefusing(identity, refused), now,
                                 studentID, name, email, department))

\* UpdateStudentStatus in a transaction whose PutState calls may return an error
UpdateStudentStatusRefusedTx ==
    \E identity \in Identities, now \in Readings(2), studentID \in IDs,
       status \in StatusArgs :
      \E refused \in Refusals(studentID) :
        TransactIn("UpdateStudentStatus", CtxRefusing(identity, refused), studentID,
                   <<status>>, now,
                   UpdateStudentStatus(world, CtxRefusing(identity, refused), now,
                                       studentID, status))

\* CreateStudent with a department CreateCompositeKey rejects
CreateStudentInvalidDepartmentTx ==
    \E identity \in Identities, now \in Readings(4), studentID \in IDs,
       name \in Names, email \in Emails, department \in InvalidStrings :
        Transact("CreateStudent", identity, studentID, <<name, email, department>>, now,
                 CreateStudent(world, Ctx(identity), now, studentID, name, email,
                               department))

\* IssueCertificate in a transaction whose PutState calls may return an error,
\* also because the certificateID is the empty key
IssueCertificateRefusedTx ==
    \E identity \in Identities, now \in Readings(5), certificateID \in IDs \cup {""},
       studentID \in IDs, certificationType \in CertTypes :
      \E refused \in IF certificateID = "" THEN {{}} ELSE Refusals(certificateID) :
        TransactIn("IssueCertificate", CtxRefusing(identity, refused), certificateID,
                   <<studentID, certificationType>>, now,
                   IssueCertificate(world, CtxRefusing(identity, refused), now,
                                    certificateID, studentID, certificationType))

\* student management and issuance on a peer that may refuse writes
NextFaults ==
    \/ txCount < MaxFaultTx /\ CreateStudentTx
    \/ txCount < MaxFaultTx /\ CreateStudentRefusedTx
    \/ txCount < MaxFaultTx /\ CreateStudentInvalidDepartmentTx
    \/ txCount < MaxFaultTx /\ UpdateStudentStatusRefusedTx
    \/ txCount < MaxFaultTx /\ IssueCertificateRefusedTx

SpecFaults == Init /\ [][NextFaults]_vars

\* Two peers run the handler of one transaction on the same world state, each
\* reading its own clock; the transaction is committed when the two results
\* and write-sets agree.
Endorse(op, identity, id, args, now, rA, rB) ==
    LET wrote == rA = rB /\ rA.err = "none" /\ rA.writes # EmptyWorld
    IN /\ last.wrote
       /\ world' = IF wrote THEN rA.writes @@ world ELSE world
       /\ clock' = IF wrote THEN now[Len(now)] ELSE clock
       /\ txCount' = IF wrote THEN txCount + 1 ELSE txCount
       /\ last' = [op |-> op, org |-> identity.org, idErr |-> identity.idErr,
                   id |-> id, args |-> args, err |-> rA.err,
                   verified |-> rA.verified, wrote |-> wrote, refused |-> {},
                   resultA |-> rA, resultB |-> rB]
       /\ UNCHANGED <<pending, chain, students, fabric, certificates, requests, records>>

EndorseCreateAcademicRecordTx ==
    \E identity \in Identities, nowA \in Readings(3), nowB \in Readings(3),
       recordID \in IDs, studentID \in IDs, semester \in Semesters, year \in Years,
       coursesJSON \in CoursesJSONs :
        Endorse("CreateAcademicRecord", identity, recordID,
                <<studentID, ToString(semester), ToString(year), coursesJSON>>, nowA,
                CreateAcademicRecord(world, Ctx(identity), nowA, recordID, studentID,
                                     semester, year, coursesJSON),
                CreateAcademicRecord(world, Ctx(identity), nowB, recordID, studentID,
                                     semester, year, coursesJSON))

EndorseIssueCertificateTx ==
    \E identity \in Identities, nowA \in Readings(5), nowB \in Readings(5),
       certificateID \in IDs, studentID \in IDs, certificationType \in CertTypes :
        Endorse("IssueCertificate", identity, certificateID,
                <<studentID, certificationType>>, nowA,
                IssueCertificate(world, Ctx(identity), nowA, certificateID, studentID,
                                 certificationType),
                IssueCertificate(world, Ctx(identity), nowB, certificateID, studentID,
                                 certificationType))

\* transactions simulated on two peers
NextNodes ==
    \/ txCount < MaxNodeTx /\ CreateStudentTx
    \/ txCount < MaxNodeTx /\ EndorseCreateAcademicRecordTx
    \/ txCount < MaxNodeTx /\ EndorseIssueCertificateTx

SpecNodes == Init /\ [][NextNodes]_vars

\* a handler that increments without recording what it read
ReadKeysNone(op, id, args) == {}

\* the keys a handler reads with GetState before it writes: the read-set
ReadKeys(op, id, args) ==
    CASE op = "IssueCertificate" -> {}
      [] op = "CreateAcademicRecord" -> {args[1]}
      [] OTHER -> {id}

\* the version of a key: the position in the chain of the last valid
\* transaction that wrote it, 0 for a key never written
Version(k) ==
    LET writers == {i \in 1..Len(chain) :
                       chain[i].valid /\ k \in DOMAIN chain[i].tx.result.writes}
    IN IF writers = {} THEN 0
       ELSE CHOOSE i \in writers : \A j \in writers : j <= i

\* A peer simulates the handler on the committed world state and records the
\* versions of the keys it read; a simulation that returned an error or wrote
\* nothing is not submitted for ordering.
Simulate(op, identity, id, args, now, r) ==
    /\ r.err = "none"
    /\ r.writes # EmptyWorld
    /\ pending' = pending \cup
                     {[txID |-> Ctx(identity).txID, op |-> op, org |-> identity.org,
                       id |-> id, args |-> args,
                       reads |-> [k \in ReadKeys(op, id, args) |-> Version(k)],
                       result |-> r]}
    /\ clock' = now[Len(now)]
    /\ txCount' = txCount + 1
    /\ UNCHANGED <<world, last, chain, students, fabric, certificates, requests, records>>

SimulateIssueCertificateTx ==
    \E identity \in Identities, now \in Readings(5), certificateID \in IDs,
       studentID \in IDs, certificationType \in CertTypes :
        Simulate("IssueCertificate", identity, certificateID,
                 <<studentID, certificationType>>, now,
                 IssueCertificate(world, Ctx(identity), now, certificateID, studentID,
                                  certificationType))

SimulateVerifyCertificateTx ==
    \E identity \in Identities, now \in Readings(2), certificateID \in IDs,
       certHash \in SuppliedHashes :
        Simulate("VerifyCertificate", identity, certificateID, <<certHash>>, now,
                 VerifyCertificate(world, Ctx(identity), now, certificateID, certHash))

\* The ordered transaction is validated: it is valid when every key it read
\* still has the version it read, and only then its write-set is committed;
\* otherwise its submitter gets a conflict error.
CommitTx ==
    \E t \in pending :
        LET valid == \A k \in DOMAIN t.reads : Version(k) = t.reads[k]
        IN /\ pending' = pending \ {t}
           /\ chain' = Append(chain, [tx |-> t, valid |-> valid])
           /\ world' = IF valid THEN t.result.writes @@ world ELSE world
           /\ last' = [op |-> t.op, org |-> t.org, idErr |-> FALSE, id |-> t.id,
                       args |-> t.args,
                       err |-> IF valid THEN "none" ELSE "ConflictError",
                       verified |-> valid /\ t.result.verified, wrote |-> valid,
                       refused |-> {}]
           /\ UNCHANGED <<clock, txCount, students, fabric, certificates, requests, records>>

\* certificates under concurrent submission
NextMVCC ==
    \/ txCount < MaxSubmitted /\ SimulateIssueCertificateTx
    \/ txCount < MaxSubmitted /\ SimulateVerifyCertificateTx
    \/ CommitTx

SpecMVCC == Init /\ [][NextMVCC]_vars

\* FabricService.generateMockHash: 16 hex digits of a hash over the ids and
\* Date.now()
generateMockHash(certificateId, studentId, t) ==
    "sha256(" \o certificateId \o "-" \o studentId \o "-" \o TimeString(t) \o ")[0..16]"

\* what a FabricService call gives its caller: an exception, or the bytes of
\* the response, which hold the value the handler returned (a JSON boolean
\* for VerifyCertificate, a JSON object otherwise) or the demo responder's object
Thrown == [threw |-> TRUE, kind |-> "none", verified |-> FALSE, body |-> <<>>]
HandlerResponse(functionName, r) ==
    IF functionName = "VerifyCertificate"
    THEN [threw |-> FALSE, kind |-> "boolean", verified |-> r.verified, body |-> <<>>]
    ELSE [threw |-> FALSE, kind |-> "object", verified |-> FALSE,
          body |-> <<r.writes>>]

\* FabricService.submitTransaction: without a contract the demo responder
\* answers every function with an issued-certificate object; with one, the
\* handler's result r is returned and its error thrown
submitTransaction(isConnected, functionName, args, now, r) ==
    IF ~isConnected
    THEN [threw |-> FALSE, kind |-> "object", verified |-> FALSE,
          body |-> <<[CertificateID |-> args[1], StudentID |-> args[2],
                      CertificateType |-> args[3], Status |-> "ISSUED",
                      CertificateHash |-> generateMockHash(args[1], args[2], now[1]),
                      Message |-> "Certificate issued and recorded on blockchain"]>>]
    ELSE IF r.err # "none" THEN Thrown
    ELSE HandlerResponse(functionName, r)

\* FabricService.evaluateTransaction: without a contract the demo responder
\* answers every function with verified: true; with one, the handler's result
\* r is returned and its error thrown
evaluateTransaction(isConnected, functionName, args, r) ==
    IF ~isConnected
    THEN [threw |-> FALSE, kind |-> "object", verified |-> TRUE,
          body |-> <<[CertificateID |-> args[1], CertificateHash |-> args[2],
                      Status |-> "VERIFIED",
                      Message |-> "Certificate verified on blockchain"]>>]
    ELSE IF r.err # "none" THEN Thrown
    ELSE HandlerResponse(functionName, r)

\* A transaction submitted through FabricService: the ledger commits the
\* handler's write-set when the service is connected; the demo responder
\* touches no ledger.
ServiceSubmit(op, isConnected, identity, id, args, now, r) ==
    LET wrote == isConnected /\ r.err = "none" /\ r.writes # EmptyWorld
    IN /\ last.wrote
       /\ world' = IF wrote THEN r.writes @@ world ELSE world
       /\ clock' = IF wrote THEN now[Len(now)] ELSE clock
       /\ txCount' = IF wrote THEN txCount + 1 ELSE txCount
       /\ last' = [op |-> op, org |-> identity.org, idErr |-> identity.idErr,
                   id |-> id, args |-> args, err |-> r.err,
                   verified |-> r.verified, wrote |-> wrote, refused |-> {},
                   isConnected |-> isConnected,
                   outcome |-> submitTransaction(isConnected, op, <<id>> \o args,
                                                 now, r)]
       /\ UNCHANGED <<pending, chain, students, fabric, certificates, requests, records>>

\* A transaction evaluated through FabricService: nothing is committed.
ServiceEvaluate(op, isConnected, identity, id, args, r) ==
    /\ last.wrote
    /\ last' = [op |-> op, org |-> identity.org, idErr |-> identity.idErr,
                id |-> id, args |-> args, err |-> r.err,
                verified |-> r.verified, wrote |-> FALSE, refused |-> {},
                isConnected |-> isConnected,
                outcome |-> evaluateTransaction(isConnected, op, <<id>> \o args, r)]
    /\ UNCHANGED <<world, clock, txCount, pending, chain, students, fabric,
                   certificates, requests, records>>

ServiceCreateStudentTx ==
    \E isConnected \in BOOLEAN, identity \in Identities, now \in Readings(4),
       studentID \in IDs, name \in Names, email \in Emails,
       department \in Departments :
        ServiceSubmit("CreateStudent", isConnected, identity, studentID,
                      <<name, email, department>>, now,
                      CreateStudent(world, Ctx(identity), now, studentID, name, email,
                                    department))

ServiceIssueCertificateTx ==
    \E isConnected \in BOOLEAN, identity \in Identities, now \in Readings(5),
       certificateID \in IDs, studentID \in IDs, certificationType \in CertTypes :
        ServiceSubmit("IssueCertificate", isConnected, identity, certificateID,
                      <<studentID, certificationType>>, now,
                      IssueCertificate(world, Ctx(identity), now, certificateID,
                                       studentID, certificationType))

ServiceVerifyCertificateTx ==
    \E isConnected \in BOOLEAN, identity \in Identities, now \in Readings(2),
       certificateID \in IDs, certHash \in SuppliedHashes :
        ServiceEvaluate("VerifyCertificate", isConnected, identity, certificateID,
                        <<certHash>>,
                        VerifyCertificate(world, Ctx(identity), now, certificateID,
                                          certHash))

\* the ledger as the web tier reaches it through FabricService
NextService ==
    \/ txCount < MaxServiceTx /\ ServiceCreateStudentTx
    \/ txCount < MaxServiceTx /\ ServiceIssueCertificateTx
    \/ txCount < MaxServiceTx /\ ServiceVerifyCertificateTx

SpecService == Init /\ [][NextService]_vars

\* the Authorization header of a request: absent, a token jwt.verify rejects,
\* or a token signed for a member of an organization
Tokens ==
    {[kind |-> "none", mspID |-> ""], [kind |-> "invalid", mspID |-> ""]}
        \cup {[kind |-> "valid", mspID |-> o] : o \in {NIT, DEPT}}

\* what a middleware does with a request: it answers with a status, or calls
\* next() with the user it attached
Answered(status) == [next |-> FALSE, status |-> status, mspID |-> ""]
Passed(mspID) == [next |-> TRUE, status |-> 0, mspID |-> mspID]

\* authMiddleware: 401 without a token or when jwt.verify throws
authMiddleware(token) ==
    IF token.kind = "none" THEN Answered(401)
    ELSE IF token.kind = "invalid" THEN Answered(401)
    ELSE Passed(token.mspID)

\* organizationCheck that lets every authenticated user through
organizationCheckAnyOrg(allowedOrgs, req) ==
    IF ~req.next THEN Answered(401) ELSE Passed(req.mspID)

\* organizationCheck(...allowedOrgs), run after req: 401 without req.user, 403
\* when the user's mspID is not among allowedOrgs
organizationCheck(allowedOrgs, req) ==
    IF ~req.next THEN Answered(401)
    ELSE IF req.mspID \notin allowedOrgs THEN Answered(403)
    ELSE Passed(req.mspID)

\* the middleware of the routes of student.routes.ts, run in order; a
\* middleware runs only when the one before it called next()
RouteMiddleware(route, token) ==
    LET auth == authMiddleware(token)
    IN IF route \in {"GET /", "GET /:studentId"} \/ ~auth.next THEN auth
       ELSE organizationCheck({"NITWarangalMSP"}, auth)

\* student-storage.service: the position of studentId in the list, 0 if absent
FindIndex(list, studentId) ==
    LET found == {i \in 1..Len(list) : list[i].studentId = studentId}
    IN IF found = {} THEN 0 ELSE CHOOSE i \in found : \A j \in found : i <= j

\* updateStudent: the stored record with the updates spread over it
UpdateStored(list, studentId, updates) ==
    [list EXCEPT ![FindIndex(list, studentId)] =
        [f \in DOMAIN @ |-> IF f \in DOMAIN updates THEN updates[f] ELSE @[f]]]

BodyStatuses == {"GRADUATED", "EXPELLED"}
validStatuses == {"ACTIVE", "GRADUATED", "SUSPENDED", "INACTIVE"}

\* StudentController: the status it answers with and the stored students after
\* it; out is what FabricService.submitTransaction gave createStudent
Controller(route, studentId, body, out) ==
    CASE route = "POST /" ->
            IF out.threw THEN [status |-> 500, students |-> students]
            ELSE [status |-> 201,
                  students |-> Append(students,
                                      [studentId |-> studentId, name |-> body.name,
                                       email |-> body.email,
                                       department |-> body.department,
                                       status |-> "ACTIVE"])]
      [] route = "PUT /:studentId" ->
            IF FindIndex(students, studentId) = 0
            THEN [status |-> 404, students |-> students]
            ELSE [status |-> 200,
                  students |-> UpdateStored(students, studentId,
                                            [name |-> body.name, status |-> body.status])]
      [] route = "PATCH /:studentId/status" ->
            IF body.status \notin validStatuses
            THEN [status |-> 400, students |-> students]
            ELSE IF FindIndex(students, studentId) = 0
            THEN [status |-> 404, students |-> students]
            ELSE [status |-> 200,
                  students |-> UpdateStored(students, studentId,
                                            [status |-> body.status])]
      [] OTHER ->
            IF route = "GET /:studentId" /\ FindIndex(students, studentId) = 0
            THEN [status |-> 404, students |-> students]
            ELSE [status |-> 200, students |-> students]

\* One request to a route of student.routes.ts: the middleware, then, if the
\* last one called next(), the controller.  createStudent first submits
\* CreateStudent through FabricService, which commits on a connected ledger.
Request(route) ==
    \E token \in Tokens, studentId \in IDs, name \in Names, email \in Emails,
       department \in Departments, status \in BodyStatuses,
       isConnected \in BOOLEAN, identity \in Identities, now \in Readings(4) :
        LET mw == RouteMiddleware(route, token)
            body == [name |-> name, email |-> email, department |-> department,
                     status |-> status]
            r == CreateStudent(world, Ctx(identity), now, studentId, name, email,
                               department)
            submits == mw.next /\ route = "POST /"
            out == submitTransaction(isConnected, "CreateStudent",
                                     <<studentId, name, email, department>>, now, r)
            commits == submits /\ isConnected /\ r.err = "none"
            answer == IF mw.next THEN Controller(route, studentId, body, out)
                      ELSE [status |-> mw.status, students |-> students]
            changed == commits \/ answer.students # students
        IN /\ last.wrote
           /\ students' = answer.students
           /\ world' = IF commits THEN r.writes @@ world ELSE world
           /\ clock' = IF commits THEN now[Len(now)] ELSE clock
           /\ txCount' = IF changed THEN txCount + 1 ELSE txCount
           /\ last' = [op |-> route, org |-> token.mspID, idErr |-> FALSE,
                       id |-> studentId, args |-> <<name, status>>,
                       err |-> "none", verified |-> FALSE, wrote |-> changed,
                       refused |-> {}, token |-> token.kind,
                       controllerRan |-> mw.next, status |-> answer.status]
           /\ UNCHANGED <<pending, chain, fabric, certificates, requests, records>>

PostStudent == Request("POST /")
GetStudents == Request("GET /")
GetStudentById == Request("GET /:studentId")
PutStudent == Request("PUT /:studentId")
PatchStudentStatus == Request("PATCH /:studentId/status")

\* the REST API of students
NextRest ==
    \/ txCount < MaxRestTx /\ PostStudent
    \/ txCount < MaxRestTx /\ GetStudents
    \/ txCount < MaxRestTx /\ GetStudentById
    \/ txCount < MaxRestTx /\ PutStudent
    \/ txCount < MaxRestTx /\ PatchStudentStatus

SpecRest == Init /\ [][NextRest]_vars

\* what FabricService.initialize() meets: no connection profile, no wallet
\* identities, a profile that does not parse, no identity in the wallet, a
\* gateway that refuses or does not answer within 5 s, or a gateway that connects
InitializeOutcomes ==
    {"noProfile", "noWallet", "badProfile", "noIdentity", "connectFails", "timeout",
     "connected"}

\* FabricService.initialize: the two early returns, the try body, and the
\* catch that swallows every exception
initialize(f, env) ==
    IF env = "noProfile" THEN [threw |-> FALSE, fabric |-> [f EXCEPT !.isConnected = FALSE]]
    ELSE IF env = "noWallet"
    THEN [threw |-> FALSE, fabric |-> [f EXCEPT !.isConnected = FALSE]]
    ELSE IF env = "connected"
    THEN [threw |-> FALSE, fabric |-> [f EXCEPT !.gateway = TRUE, !.isConnected = TRUE]]
    ELSE [threw |-> FALSE, fabric |-> [f EXCEPT !.isConnected = FALSE]]

\* getContract that hands out the contract it cached, connected or not
getContractCached(f, env, networkFound) ==
    IF f.contract THEN [contract |-> TRUE, fabric |-> f]
    ELSE IF ~f.isConnected THEN [contract |-> FALSE, fabric |-> f]
    ELSE LET g == IF ~f.gateway THEN initialize(f, env).fabric ELSE f
         IN IF ~g.contract /\ g.gateway
            THEN IF networkFound
                 THEN [contract |-> TRUE, fabric |-> [g EXCEPT !.contract = TRUE]]
                 ELSE [contract |-> FALSE, fabric |-> g]
            ELSE [contract |-> g.contract, fabric |-> g]

\* FabricService.getContract: null when not connected; otherwise the cached
\* contract, fetched from the gateway's network on first use (null when
\* getNetwork throws)
getContract(f, env, networkFound) ==
    IF ~f.isConnected THEN [contract |-> FALSE, fabric |-> f]
    ELSE LET g == IF ~f.gateway THEN initialize(f, env).fabric ELSE f
         IN IF ~g.contract /\ g.gateway
            THEN IF networkFound
                 THEN [contract |-> TRUE, fabric |-> [g EXCEPT !.contract = TRUE]]
                 ELSE [contract |-> FALSE, fabric |-> g]
            ELSE [contract |-> g.contract, fabric |-> g]

\* One call of a FabricService method on the service object; a call that got
\* a contract runs the handler on the ledger, which commits what a submitted
\* transaction wrote.
FabricCall(method, functionName, env, usedContract, f, id, args, r, now, outcome) ==
    LET commits == /\ method = "submitTransaction" /\ usedContract
                   /\ r.err = "none" /\ r.writes # EmptyWorld
    IN /\ fabric' = f
       /\ world' = IF commits THEN r.writes @@ world ELSE world
       /\ clock' = IF commits THEN now[Len(now)] ELSE clock
       /\ txCount' = txCount + 1
       /\ last' = [op |-> method, org |-> "", idErr |-> FALSE, id |-> id,
                   args |-> args, err |-> r.err, verified |-> r.verified,
                   wrote |-> TRUE, refused |-> {}, functionName |-> functionName,
                   env |-> env, usedContract |-> usedContract, outcome |-> outcome]
       /\ UNCHANGED <<pending, chain, students, certificates, requests, records>>

FabricInitialize ==
    \E env \in InitializeOutcomes :
        LET done == initialize(fabric, env)
        IN FabricCall("initialize", "", env, FALSE, done.fabric, "", <<>>,
                      Fail("none"), <<clock>>,
                      [threw |-> done.threw, kind |-> "none", verified |-> FALSE,
                       body |-> <<>>])

FabricSubmitIssueCertificate ==
    \E env \in InitializeOutcomes, networkFound \in BOOLEAN, identity \in Identities,
       now \in Readings(5), certificateID \in IDs, studentID \in IDs,
       certificationType \in CertTypes :
        LET got == getContract(fabric, env, networkFound)
            r == IssueCertificate(world, Ctx(identity), now, certificateID, studentID,
                                  certificationType)
        IN FabricCall("submitTransaction", "IssueCertificate", "", got.contract,
                      got.fabric, certificateID, <<studentID, certificationType>>, r,
                      now,
                      submitTransaction(got.contract, "IssueCertificate",
                                        <<certificateID, studentID, certificationType>>,
                                        now, r))

FabricEvaluateVerifyCertificate ==
    \E env \in InitializeOutcomes, networkFound \in BOOLEAN, identity \in Identities,
       now \in Readings(2), certificateID \in IDs, certHash \in SuppliedHashes :
        LET got == getContract(fabric, env, networkFound)
            r == VerifyCertificate(world, Ctx(identity), now, certificateID, certHash)
        IN FabricCall("evaluateTransaction", "VerifyCertificate", "", got.contract,
                      got.fabric, certificateID, <<certHash>>, r, now,
                      evaluateTransaction(got.contract, "VerifyCertificate",
                                          <<certificateID, certHash>>, r))

\* one FabricService object and the calls its controller makes on it
NextFabric ==
    \/ txCount < MaxFabricCalls /\ FabricInitialize
    \/ txCount < MaxFabricCalls /\ FabricSubmitIssueCertificate
    \/ txCount < MaxFabricCalls /\ FabricEvaluateVerifyCertificate

SpecFabric == Init /\ [][NextFabric]_vars

\* Math.random().toString(36).substr(2, 9), the random part of a certificate id
RandomSuffixes == {"k3x", "q7m"}

\* the codes generateVerificationCode can return: nine characters drawn with
\* Math.random() from A-Z0-9, compared with nothing
VerificationCodes == {"AAAAAAAAA", "B2B2B2B2B"}

\* studentID of a request body; the empty one fails the validation
BodyStudentIDs == {"", "S1"}

\* what initialize() meets when a request calls it: the gateway answers in
\* time or it does not
RequestOutcomes == {"timeout", "connected"}

\* the identity the wallet gives the gateway: the university's or a department's
ServiceIdentities == {[org |-> o, idErr |-> FALSE] : o \in {NIT, DEPT}}

\* `CERT-${Date.now()}-${Math.random().toString(36).substr(2, 9)}`
NewCertificateId(t, suffix) == "CERT-" \o ToString(t) \o "-" \o suffix

\* readCertificates: the parsed file, or [] when reading or parsing throws
readCertificates(file, fails) == IF fails THEN <<>> ELSE file

\* writeCertificates: the file holds the list afterwards, unless writing throws
writeCertificates(file, list, fails) == IF fails THEN file ELSE list

\* updatedCerts.findIndex(c => c.id === certificateId), 0 for -1
FindCertIndex(list, certificateId) ==
    LET found == {i \in 1..Len(list) : list[i].id = certificateId}
    IN IF found = {} THEN 0 ELSE CHOOSE i \in found : \A j \in found : i <= j

\* certificates.find(cert => cert.verificationCode === verificationCode), 0
\* when there is none
FindByCode(list, verificationCode) ==
    LET found == {i \in 1..Len(list) : list[i].verificationCode = verificationCode}
    IN IF found = {} THEN 0 ELSE CHOOSE i \in found : \A j \in found : i <= j

\* blockchainResult.CertificateHash || certificateId: the demo responder's
\* object has the member, the Certificate the chaincode returns does not
\* (its member is certificateHash)
BlockchainHash(outcome, certificateId) ==
    IF outcome.kind = "object" /\ "CertificateHash" \in DOMAIN outcome.body[1]
    THEN outcome.body[1].CertificateHash
    ELSE certificateId

\* the fields of last that only ledger transactions use; wrote is false after
\* a request that changed nothing, and no request is followed from there
NoTransaction == [org |-> "", idErr |-> FALSE, args |-> <<>>, err |-> "none",
                  verified |-> FALSE, wrote |-> TRUE, refused |-> {}]

\* generateCertificate up to its first await: validation, the new certificate
\* appended to certificates.json, then the call of fabricService.initialize()
GenerateCertificateStart ==
    \E studentID \in BodyStudentIDs, suffix \in RandomSuffixes,
       verificationCode \in VerificationCodes, now \in Readings(1),
       readFails \in BOOLEAN, writeFails \in BOOLEAN :
        LET certificateId == NewCertificateId(now[1], suffix)
            certificate == [id |-> certificateId, studentID |-> studentID,
                            verificationCode |-> verificationCode,
                            onBlockchain |-> FALSE, blockchainHash |-> ""]
            list == Append(readCertificates(certificates, readFails), certificate)
        IN IF studentID = ""
           THEN /\ last' = [NoTransaction EXCEPT !.wrote = FALSE] @@
                           [op |-> "generateCertificate", id |-> "", status |-> 400,
                            request |-> 0]
                /\ UNCHANGED <<world, clock, txCount, pending, chain, students, fabric,
                               certificates, requests, records>>
           ELSE /\ certificates' = writeCertificates(certificates, list, writeFails)
                /\ requests' = Append(requests,
                                      [certificate |-> certificate, pc |-> "initialize",
                                       usedContract |-> FALSE,
                                       index |-> IF writeFails THEN 0 ELSE Len(list)])
                /\ clock' = now[1]
                /\ last' = NoTransaction @@
                           [op |-> "generateCertificate", id |-> certificateId,
                            status |-> 0, request |-> Len(requests) + 1]
                /\ UNCHANGED <<world, txCount, pending, chain, students, fabric,
                               records>>

\* initialize() returned; submitTransaction is called and asks for the contract
GenerateCertificateInitialized ==
    \E n \in 1..Len(requests), env \in RequestOutcomes, networkFound \in BOOLEAN :
        LET got == getContract(initialize(fabric, env).fabric, env, networkFound)
        IN /\ requests[n].pc = "initialize"
           /\ fabric' = got.fabric
           /\ requests' = [requests EXCEPT ![n].pc = "submit",
                                           ![n].usedContract = got.contract]
           /\ last' = NoTransaction @@
                      [op |-> "initialize", id |-> requests[n].certificate.id,
                       status |-> 0, request |-> n]
           /\ UNCHANGED <<world, clock, txCount, pending, chain, students,
                          certificates, records>>

\* submitTransaction returned or threw: on a result the request re-reads the
\* file, replaces the entry found by its certificate id with its own
\* certificate and writes the file; it answers 201 either way.  The peer's
\* clock reads what the web tier's clock read last.
GenerateCertificateSubmitted ==
    \E n \in 1..Len(requests), identity \in ServiceIdentities,
       certificateType \in CertTypes, readFails \in BOOLEAN, writeFails \in BOOLEAN :
        LET req == requests[n]
            now == [i \in 1..5 |-> clock]
            certificateId == req.certificate.id
            r == IssueCertificate(world, Ctx(identity), now, certificateId,
                                  req.certificate.studentID, certificateType)
            outcome == submitTransaction(req.usedContract, "IssueCertificate",
                                         <<certificateId, req.certificate.studentID,
                                           certificateType>>, now, r)
            commits == req.usedContract /\ r.err = "none"
            certificate == [req.certificate EXCEPT
                                !.onBlockchain = TRUE,
                                !.blockchainHash = BlockchainHash(outcome, certificateId)]
            updatedCerts == readCertificates(certificates, readFails)
            certIndex == FindCertIndex(updatedCerts, certificateId)
        IN /\ req.pc = "submit"
           /\ certificates' =
                  IF outcome.threw \/ certIndex = 0 THEN certificates
                  ELSE writeCertificates(certificates,
                                         [updatedCerts EXCEPT ![certIndex] = certificate],
                                         writeFails)
           /\ requests' = [requests EXCEPT ![n].pc = "done"]
           /\ world' = IF commits THEN r.writes @@ world ELSE world
           /\ clock' = IF commits THEN now[Len(now)] ELSE clock
           /\ txCount' = IF commits THEN txCount + 1 ELSE txCount
           /\ last' = NoTransaction @@
                      [op |-> "submitted", id |-> certificateId, status |-> 201,
                       request |-> n]
           /\ UNCHANGED <<pending, chain, students, fabric, records>>

\* verifyCertificate(code): 404 when no certificate has the code, else the
\* first certificate that has it, after asking the ledger through FabricService
VerifyByCode ==
    \E verificationCode \in VerificationCodes, env \in RequestOutcomes,
       networkFound \in BOOLEAN, readFails \in BOOLEAN :
        LET list == readCertificates(certificates, readFails)
            identity == [org |-> NIT, idErr |-> FALSE]
            now == <<clock, clock>>
            i == FindByCode(list, verificationCode)
            hash == IF list[i].blockchainHash # "" THEN list[i].blockchainHash
                    ELSE list[i].id
            got == getContract(initialize(fabric, env).fabric, env, networkFound)
            outcome == evaluateTransaction(got.contract, "VerifyCertificate",
                                           <<list[i].id, hash>>,
                                           VerifyCertificate(world, Ctx(identity), now,
                                                             list[i].id, hash))
        IN IF i = 0
           THEN /\ last' = [NoTransaction EXCEPT !.wrote = FALSE] @@
                           [op |-> "verifyCertificate", id |-> verificationCode,
                            status |-> 404, request |-> 0]
                /\ UNCHANGED <<world, clock, txCount, pending, chain, students, fabric,
                               certificates, requests, records>>
           ELSE /\ fabric' = got.fabric
                /\ last' = [NoTransaction EXCEPT !.wrote = got.fabric # fabric] @@
                           [op |-> "verifyCertificate", id |-> verificationCode,
                            status |-> 200, request |-> 0, certificate |-> list[i],
                            blockchainVerified |->
                                (~outcome.threw /\ outcome.kind = "object"
                                 /\ outcome.verified)]
                /\ UNCHANGED <<world, clock, txCount, pending, chain, students,
                               certificates, requests, records>>

\* the certificate routes of the web tier, with requests suspended at awaits
NextGenerate ==
    \/ last.wrote /\ Len(requests) < MaxRequests /\ GenerateCertificateStart
    \/ last.wrote /\ GenerateCertificateInitialized
    \/ last.wrote /\ GenerateCertificateSubmitted
    \/ last.wrote /\ VerifyByCode

SpecGenerate == Init /\ [][NextGenerate]_vars

\* the keys and subjects a caller of the record store passes
StoreStudentIds == {"S1", "S2"}
StoreSemesters == {"1"}
AcademicYears == {"2024", "2025"}
SubjectLists ==
    {<<>>,
     <<[subjectCode |-> "CS101", credits |-> 4, marksObtained |-> 85,
        marksTotal |-> 100]>>,
     <<[subjectCode |-> "CS101", credits |-> 4, marksObtained |-> 85,
        marksTotal |-> 100],
       [subjectCode |-> "MA101", credits |-> 3, marksObtained |-> 55,
        marksTotal |-> 100]>>}

\* loadAcademicRecords: the parsed file, or [] when reading or parsing throws
loadAcademicRecords(file, fails) == IF fails THEN <<>> ELSE file

\* saveAcademicRecords: the file holds the list afterwards, unless writing throws
saveAcademicRecords(file, list, fails) == IF fails THEN file ELSE list

\* calculateGrade: the grade and grade point of marksObtained / marksTotal
calculateGrade(marksObtained, marksTotal) ==
    LET atLeast(p) == marksObtained * 100 >= p * marksTotal
    IN IF atLeast(90) THEN [grade |-> "A+", gradePoint |-> 10]
       ELSE IF atLeast(80) THEN [grade |-> "A", gradePoint |-> 9]
       ELSE IF atLeast(70) THEN [grade |-> "B+", gradePoint |-> 8]
       ELSE IF atLeast(60) THEN [grade |-> "B", gradePoint |-> 7]
       ELSE IF atLeast(50) THEN [grade |-> "C+", gradePoint |-> 6]
       ELSE IF atLeast(40) THEN [grade |-> "C", gradePoint |-> 5]
       ELSE [grade |-> "F", gradePoint |-> 0]

\* the sum of one numeric field over the subjects of a list
RECURSIVE SumOver(_, _)
SumOver(field, subjects) ==
    IF subjects = <<>> THEN 0
    ELSE Head(subjects)[field] + SumOver(field, Tail(subjects))

\* calculateSemesterGPA, in hundredths: Math.round(gpa * 100) / 100
calculateSemesterGPA(subjects) ==
    LET weightedPoints ==
            [i \in 1..Len(subjects) |->
                [points |-> calculateGrade(subjects[i].marksObtained,
                                           subjects[i].marksTotal).gradePoint
                            * subjects[i].credits]]
        totalCredits == SumOver("credits", subjects)
    IN IF subjects = <<>> \/ totalCredits = 0 THEN 0
       ELSE (200 * SumOver("points", weightedPoints) + totalCredits)
            \div (2 * totalCredits)

\* the position of the record with the key in the list, 0 for findIndex's -1
FindRecordIndex(list, studentId, semester, academicYear) ==
    LET found == {i \in 1..Len(list) : /\ list[i].studentId = studentId
                                       /\ list[i].semester = semester
                                       /\ list[i].academicYear = academicYear}
    IN IF found = {} THEN 0 ELSE CHOOSE i \in found : \A j \in found : i <= j

\* records.splice(index, 1)
Splice(list, index) ==
    [i \in 1..(Len(list) - 1) |-> IF i < index THEN list[i] ELSE list[i + 1]]

\* one call on the record store
StoreCall(op, studentId, semester, academicYear, list, returned, faults, now) ==
    /\ records' = list
    /\ clock' = now
    /\ txCount' = txCount + 1
    /\ last' = NoTransaction @@
                [op |-> op, id |-> studentId, semester |-> semester,
                 academicYear |-> academicYear, returned |-> returned,
                 loadFails |-> faults[1], saveFails |-> faults[2]]
    /\ UNCHANGED <<world, pending, chain, students, fabric, certificates, requests>>

\* addOrUpdateAcademicRecord: the record with its grades and totals replaces
\* the loaded record that has its key, or is pushed when there is none
addOrUpdateAcademicRecord ==
    \E studentId \in StoreStudentIds, semester \in StoreSemesters,
       academicYear \in AcademicYears, subjects \in SubjectLists,
       now \in Readings(1), loadFails \in BOOLEAN, saveFails \in BOOLEAN :
        LET loaded == loadAcademicRecords(records, loadFails)
            subjectsWithGrades ==
                [i \in 1..Len(subjects) |->
                    subjects[i] @@ calculateGrade(subjects[i].marksObtained,
                                                  subjects[i].marksTotal)]
            updatedRecord ==
                [studentId |-> studentId, semester |-> semester,
                 academicYear |-> academicYear, subjects |-> subjectsWithGrades,
                 gpaForSemester |-> calculateSemesterGPA(subjectsWithGrades),
                 totalMarks |-> SumOver("marksObtained", subjectsWithGrades),
                 totalMarksMax |-> SumOver("marksTotal", subjectsWithGrades),
                 totalCredits |-> SumOver("credits", subjectsWithGrades),
                 createdAt |-> TimeString(now[1]), updatedAt |-> TimeString(now[1])]
            index == FindRecordIndex(loaded, studentId, semester, academicYear)
            list == IF index # 0 THEN [loaded EXCEPT ![index] = updatedRecord]
                    ELSE Append(loaded, updatedRecord)
        IN StoreCall("addOrUpdateAcademicRecord", studentId, semester, academicYear,
                     saveAcademicRecords(records, list, saveFails), TRUE,
                     <<loadFails, saveFails>>, now[1])

\* deleteAcademicRecord: false when the loaded list has no record with the
\* key; otherwise the record is spliced out, the list saved and true returned
deleteAcademicRecord ==
    \E studentId \in StoreStudentIds, semester \in StoreSemesters,
       academicYear \in AcademicYears, loadFails \in BOOLEAN, saveFails \in BOOLEAN :
        LET loaded == loadAcademicRecords(records, loadFails)
            index == FindRecordIndex(loaded, studentId, semester, academicYear)
        IN StoreCall("deleteAcademicRecord", studentId, semester, academicYear,
                     IF index = 0 THEN records
                     ELSE saveAcademicRecords(records, Splice(loaded, index), saveFails),
                     index # 0, <<loadFails, saveFails>>, clock)

\* the web tier's store of academic records
NextStore ==
    \/ txCount < MaxStoreCalls /\ addOrUpdateAcademicRecord
    \/ txCount < MaxStoreCalls /\ deleteAcademicRecord

SpecStore == Init /\ [][NextStore]_vars

\* CourseGrade values: Credits and GradePoint (the members calculateSGPA reads)
Credits == {0, 3, 4}
GradePoints == {7, 8, 10}
CourseGrades == [credits : Credits, gradePoint : GradePoints]

\* the lists of courses handed to calculateSGPA
CourseLists == UNION {[1..n -> CourseGrades] : n \in 0..MaxCourses}

\* a list of courses, parsed and about to be graded
InitSGPA ==
    /\ world = EmptyWorld
    /\ clock = 0
    /\ txCount = 0
    /\ \E courses \in CourseLists : last = [op |-> "courses", courses |-> courses]
    /\ pending = {}
    /\ chain = <<>>
    /\ students = <<>>
    /\ fabric = [isConnected |-> FALSE, gateway |-> FALSE, contract |-> FALSE]
    /\ certificates = <<>>
    /\ requests = <<>>
    /\ records = <<>>

\* record.SGPA = calculateSGPA(courses), as CreateAcademicRecord stores it
CalculateSGPAStep ==
    /\ last.op = "courses"
    /\ last' = [op |-> "calculateSGPA", courses |-> last.courses,
                sgpa |-> NewRecord("ID1", "ID1", 1, 2024, last.courses, DEPT,
                                   <<1, 1, 1>>).sgpa]
    /\ UNCHANGED <<world, clock, txCount, pending, chain, students, fabric,
                   certificates, requests, records>>

NextSGPA == CalculateSGPAStep

SpecSGPA == InitSGPA /\ [][NextSGPA]_vars

---------------------------------------------------------------------------
(* Queries over composite keys *)

\* the byte U+0000 that opens a composite key and closes each of its parts
CompositeKeyNamespace == "|"

\* CreateCompositeKey: the key string built from the object type and the
\* attributes; the call builds a string and writes nothing
RECURSIVE CreateCompositeKey(_, _)
CreateCompositeKey(objectType, attributes) ==
    IF attributes = <<>>
    THEN CompositeKeyNamespace \o objectType \o CompositeKeyNamespace
    ELSE CreateCompositeKey(objectType, SubSeq(attributes, 1, Len(attributes) - 1))
             \o attributes[Len(attributes)] \o CompositeKeyNamespace

\* the last attribute of the composite keys the chaincode builds: a recordID
\* ("record~student") or a logID ("audit")
LastAttributes == IDs \cup UNION {LogIDs(id) : id \in IDs}

\* GetStateByPartialCompositeKey: the stored keys that extend the composite key
\* of the given attributes by one more attribute
GetStateByPartialCompositeKey(w, objectType, attributes) ==
    {k \in DOMAIN w :
        \E lastAttribute \in LastAttributes :
            k = CreateCompositeKey(objectType, attributes \o <<lastAttribute>>)}

\* GetAcademicRecord: the stored value read as an AcademicRecord
GetAcademicRecord(w, recordID) ==
    IF ~Exists(w, recordID)
    THEN [err |-> "NotFoundError", record |-> UnmarshalRecord(EmptyWorld)]
    ELSE [err |-> "none", record |-> UnmarshalRecord(w[recordID])]

\* GetStudentRecords: the records named by the second part of each key found
\* under "record~student", studentID (as a set; the iterator's order is left out)
GetStudentRecords(w, studentID) ==
    {GetAcademicRecord(w, recordID).record :
        recordID \in {r \in LastAttributes :
                         /\ CreateCompositeKey("record~student", <<studentID, r>>)
                                \in GetStateByPartialCompositeKey(w, "record~student",
                                                                  <<studentID>>)
                         /\ GetAcademicRecord(w, r).err = "none"}}

\* GetAuditLog: the values found under "audit", recordID read as AuditLog
\* (as a set; the iterator's order is left out)
GetAuditLog(w, recordID) ==
    {UnmarshalAuditLog(w[k]) :
        k \in GetStateByPartialCompositeKey(w, "audit", <<recordID>>)}

---------------------------------------------------------------------------
(* Queries by range scan *)

\* GetStateByRange("", ""): every simple key of the world state
GetStateByRange(w) == DOMAIN w

\* GetAllStudents: each scanned value read as a Student; the entries of the
\* returned list, indexed by the key each was read from.  json.Unmarshal into
\* a Student fails for no stored value, so no key is skipped.
GetAllStudents(w) == [k \in GetStateByRange(w) |-> UnmarshalStudent(w[k])]

\* GetStudentCertificates: each scanned value read as a Certificate and kept
\* when its StudentID member equals studentID; indexed by the scanned key
GetStudentCertificates(w, studentID) ==
    [k \in {key \in GetStateByRange(w) :
                UnmarshalCertificate(w[key]).studentId = studentID}
        |-> UnmarshalCertificate(w[k])]

---------------------------------------------------------------------------
(* The read handlers as transactions *)

\* GetCertificate: the stored value read as a Certificate
GetCertificate(w, certificateID) ==
    IF ~Exists(w, certificateID)
    THEN [err |-> "NotFoundError", certificate |-> UnmarshalCertificate(EmptyWorld)]
    ELSE [err |-> "none", certificate |-> UnmarshalCertificate(w[certificateID])]

ReadOps == {"GetStudent", "GetAllStudents", "GetAcademicRecord", "GetStudentRecords",
            "GetCertificate", "GetStudentCertificates", "GetAuditLog"}

\* a read handler that logs the read in the audit trail
ReadHandlerAudited(w, ctx, functionName, id) ==
    Done(logAudit(EmptyWorld, ctx, functionName, "READ", id, "read", 1, 1))

\* what a read handler hands the ledger: its error, and the write-set of a
\* handler that called neither PutState nor logAudit
ReadHandler(w, ctx, functionName, id) ==
    CASE functionName = "GetStudent" ->
            IF GetStudent(w, id).err = "none" THEN Done(EmptyWorld)
            ELSE Fail(GetStudent(w, id).err)
      [] functionName = "GetAcademicRecord" ->
            IF GetAcademicRecord(w, id).err = "none" THEN Done(EmptyWorld)
            ELSE Fail(GetAcademicRecord(w, id).err)
      [] functionName = "GetCertificate" ->
            IF GetCertificate(w, id).err = "none" THEN Done(EmptyWorld)
            ELSE Fail(GetCertificate(w, id).err)
      [] OTHER -> Done(EmptyWorld)

\* a read handler invoked as a transaction; it reads no clock
ReadTx(functionName, ids) ==
    \E identity \in Identities, id \in ids :
        Transact(functionName, identity, id, <<>>, <<clock>>,
                 ReadHandler(world, Ctx(identity), functionName, id))

GetStudentTx == ReadTx("GetStudent", IDs)
GetAllStudentsTx == ReadTx("GetAllStudents", {""})
GetAcademicRecordTx == ReadTx("GetAcademicRecord", IDs)
GetStudentRecordsTx == ReadTx("GetStudentRecords", IDs)
GetCertificateTx == ReadTx("GetCertificate", IDs)
GetStudentCertificatesTx == ReadTx("GetStudentCertificates", IDs)
GetAuditLogTx == ReadTx("GetAuditLog", IDs)

\* entities are created and read
NextReads ==
    \/ txCount < MaxReadTx /\ CreateStudentTx
    \/ txCount < MaxReadTx /\ CreateAcademicRecordTx
    \/ txCount < MaxReadTx /\ IssueCertificateTx
    \/ txCount < MaxReadTx /\ GetStudentTx
    \/ txCount < MaxReadTx /\ GetAllStudentsTx
    \/ txCount < MaxReadTx /\ GetAcademicRecordTx
    \/ txCount < MaxReadTx /\ GetStudentRecordsTx
    \/ txCount < MaxReadTx /\ GetCertificateTx
    \/ txCount < MaxReadTx /\ GetStudentCertificatesTx
    \/ txCount < MaxReadTx /\ GetAuditLogTx

SpecReads == Init /\ [][NextReads]_vars

---------------------------------------------------------------------------
(* Views of the world state used by the properties *)

\* the value under k is the Certificate IssueCertificate wrote for k
\* (VerifyCertificate rewrites it with the same certificateId)
IssuedCertificate(w, k) ==
    Exists(w, k) /\ IsCertificateJSON(w[k]) /\ w[k].certificateId = k

\* the value under k is the AcademicRecord CreateAcademicRecord wrote for k
\* (the approve and verify handlers rewrite it with the same recordId)
RecordAt(w, k) ==
    Exists(w, k) /\ IsRecordJSON(w[k]) /\ w[k].recordId = k

\* the value under k is the Student CreateStudent wrote for k
StudentAt(w, k) ==
    /\ Exists(w, k) /\ IsStudentJSON(w[k])
    /\ w[k].studentId = k /\ w[k].createdBy = NIT

\* verificationCount of the value under k, read as GetCertificate reads it
VerificationCount(w, k) ==
    IF Exists(w, k) THEN UnmarshalCertificate(w[k]).verificationCount ELSE 0

\* the organization the specification requires for a gated handler
RequiredOrg(op) ==
    CASE op \in {"CreateStudent", "UpdateStudentStatus", "IssueCertificate",
                 "ApproveAcademicRecord"} -> NIT
      [] op = "CreateAcademicRecord" -> DEPT
      [] op = "VerifyAcademicRecord" -> VERIFIERS
      [] OTHER -> ""

GatedOps == {"CreateStudent", "UpdateStudentStatus", "IssueCertificate",
             "ApproveAcademicRecord", "CreateAcademicRecord",
             "VerifyAcademicRecord"}

---------------------------------------------------------------------------
(* C1 *)

\* C1: VerifyCertificate(certificateID, suppliedHash) returns true if and only
\* if a Certificate written by IssueCertificate is stored under certificateID
\* and its stored certificateHash equals suppliedHash; otherwise it returns
\* false, and it never returns an error.
C1_VerifyTrueIffIssuedAndHashEqual ==
    [][last'.op = "VerifyCertificate" =>
          /\ last'.err = "none"
          /\ last'.verified <=>
                (/\ IssuedCertificate(world, last'.id)
                 /\ world[last'.id].certificateHash = last'.args[1])]_vars

---------------------------------------------------------------------------
(* C2, C3 *)

\* C2: once an AcademicRecord has status VERIFIED, no handler invocation leaves
\* it with status SUBMITTED or APPROVED.
C2_VerifiedIsFinal ==
    [][\A k \in IDs :
          (RecordAt(world, k) /\ world[k].status = "VERIFIED" /\ Exists(world', k))
          => UnmarshalRecord(world'[k]).status \notin {"SUBMITTED", "APPROVED"}]_vars

\* C3: no AcademicRecord transition skips a state: a record reaches VERIFIED
\* only from APPROVED and reaches APPROVED only from SUBMITTED.
C3_NoSkippedState ==
    [][\A k \in IDs :
          (/\ RecordAt(world, k) /\ RecordAt(world', k)
           /\ world'[k].status # world[k].status)
          => /\ world'[k].status = "VERIFIED" => world[k].status = "APPROVED"
             /\ world'[k].status = "APPROVED" => world[k].status = "SUBMITTED"]_vars

---------------------------------------------------------------------------
(* C4 *)

\* C4: a gated handler (CreateStudent, UpdateStudentStatus, IssueCertificate,
\* ApproveAcademicRecord, CreateAcademicRecord, VerifyAcademicRecord) invoked
\* by a caller of another organization than the one it requires returns an
\* authorization error and writes nothing.
C4_WrongOrgRejected ==
    [][(/\ last'.op \in GatedOps
        /\ ~last'.idErr
        /\ last'.org # RequiredOrg(last'.op))
       => (last'.err = "AuthorizationError" /\ world' = world)]_vars

\* a department caller was refused the approval of a stored record
C4_Witness ==
    /\ last.op = "ApproveAcademicRecord" /\ last.org = DEPT
    /\ last.err = "AuthorizationError"
    /\ RecordAt(world, last.id)

---------------------------------------------------------------------------
(* C5, C6 *)

\* C5: CreateStudent called with a studentID that already exists fails, with a
\* duplicate error when the caller is the issuing organization, and leaves the
\* existing record and the audit log (the whole world state) unchanged.
C5_DuplicateStudentRejected ==
    [][(last'.op = "CreateStudent" /\ Exists(world, last'.id))
       => /\ last'.err # "none"
          /\ world' = world
          /\ (last'.org = NIT /\ ~last'.idErr) => last'.err = "DuplicateError"]_vars

\* the issuing organization was refused a second Student under a stored one's id
C5_Witness ==
    /\ last.op = "CreateStudent" /\ last.org = NIT
    /\ last.err = "DuplicateError"
    /\ StudentAt(world, last.id)

\* C6: after a successful CreateStudent(studentID, name, email, department),
\* GetStudent(studentID) returns a Student with status ACTIVE, createdBy equal
\* to the calling organization, and the name, email and department passed.
C6_CreatedStudentIsReadBack ==
    (last.op = "CreateStudent" /\ last.err = "none")
    => LET got == GetStudent(world, last.id)
       IN /\ got.err = "none"
          /\ got.student.studentId = last.id
          /\ got.student.status = "ACTIVE"
          /\ got.student.createdBy = last.org
          /\ got.student.name = last.args[1]
          /\ got.student.email = last.args[2]
          /\ got.student.department = last.args[3]

\* a Student was created in a ledger that already held another value
C6_Witness ==
    /\ last.op = "CreateStudent" /\ last.err = "none"
    /\ Cardinality(DOMAIN world) > 2

---------------------------------------------------------------------------
(* C7, C8, C9 *)

C8_VerifyFrame ==
    [][last'.op = "VerifyCertificate" =>
          IF ~last'.verified
          THEN world' = world
          ELSE /\ \E a \in DOMAIN world' \ DOMAIN world :
                     /\ DOMAIN world' = DOMAIN world \cup {a}
                     /\ IsAuditJSON(world'[a])
               /\ \A k \in DOMAIN world \ {last'.id} : world'[k] = world[k]
               /\ DOMAIN world'[last'.id] = DOMAIN world[last'.id]
               /\ \A f \in DOMAIN world[last'.id] \ {"verificationCount"} :
                     world'[last'.id][f] = world[last'.id][f]]_vars

\* C9: the verificationCount of an issued certificate never decreases, also
\* when IssueCertificate is called again with the same certificateID.
C9_CountNeverDecreases ==
    [][\A k \in IDs :
          (IssuedCertificate(world, k) /\ IssuedCertificate(world', k))
          => world'[k].verificationCount >= world[k].verificationCount]_vars

---------------------------------------------------------------------------
(* C10 *)

\* C10: once CreateStudent(studentID, ...) has succeeded, the value stored
\* under studentID stays that Student with unchanged name, email, department,
\* createdBy and createdAt; no handler deletes or replaces it, and its status
\* changes only through a successful UpdateStudentStatus by the issuing
\* organization.
C10_StudentIsPermanent ==
    [][\A k \in IDs :
          StudentAt(world, k)
          => /\ StudentAt(world', k)
             /\ \A f \in {"name", "email", "department", "createdBy", "createdAt"} :
                   world'[k][f] = world[k][f]
             /\ world'[k].status # world[k].status
                   => /\ last'.op = "UpdateStudentStatus" /\ last'.id = k
                      /\ last'.org = NIT /\ last'.err = "none"]_vars

---------------------------------------------------------------------------
(* C11, C12 *)

\* the keys under which an AuditLog written by logAudit is stored
AuditKeys(w) == {k \in DOMAIN w : IsAuditJSON(w[k]) /\ w[k].logId = k}

\* the invocation committed a mutation (VerifyCertificate only when true)
SuccessfulMutation(l) ==
    /\ l.op \in GatedOps \cup {"VerifyCertificate"}
    /\ l.err = "none"
    /\ l.op = "VerifyCertificate" => l.verified

\* C11: every successful invocation of a mutating handler increases the number
\* of stored AuditLog entries by exactly one, and the new entry has recordID
\* equal to the mutated entity's id and action equal to the handler's name.
C11_OneAuditEntryPerMutation ==
    [][SuccessfulMutation(last') =>
          /\ Cardinality(AuditKeys(world')) = Cardinality(AuditKeys(world)) + 1
          /\ \E k \in AuditKeys(world') \ AuditKeys(world) :
                /\ world'[k].recordId = last'.id
                /\ world'[k].action = last'.op]_vars

\* C12: an AuditLog entry, once written, is stored unchanged under its logID in
\* every later state.
C12_AuditEntriesImmutable ==
    [][\A k \in AuditKeys(world) : Exists(world', k) /\ world'[k] = world[k]]_vars

---------------------------------------------------------------------------
(* C13 *)

\* the peer refused the audit write of the last transaction
AuditWriteRefused(l) == l.op \in GatedOps /\ LogIDs(l.id) \subseteq l.refused

\* C13: if writing the audit entry fails inside a mutating handler, the
\* transaction fails: the handler reports an error and neither the primary
\* write nor the audit write is committed.
C13_AuditFailureFailsTransaction ==
    [][AuditWriteRefused(last') => last'.err # "none" /\ world' = world]_vars

---------------------------------------------------------------------------
(* C14 *)

\* points / credits in hundredths, rounded to the nearest hundredth
RoundedHundredths(points, credits) == (200 * points + credits) \div (2 * credits)

\* C14: for every list of courses the stored SGPA is the credit-weighted mean
\* of the grade points rounded to two decimal places (the nearest hundredth),
\* and 0 when the total of the credits is 0.
C14_SGPARounded ==
    last.op = "calculateSGPA" =>
        last.sgpa = IF SumCredits(last.courses) > 0
                    THEN RoundedHundredths(SumPoints(last.courses),
                                           SumCredits(last.courses))
                    ELSE 0

---------------------------------------------------------------------------
(* C15 *)

\* C15: in every reachable state the studentID of each stored AcademicRecord
\* names a Student that exists in the world state.
C15_RecordNamesStoredStudent ==
    \A k \in DOMAIN world :
        RecordAt(world, k) =>
            /\ Exists(world, world[k].studentId)
            /\ IsStudentJSON(world[world[k].studentId])
            /\ world[world[k].studentId].studentId = world[k].studentId

---------------------------------------------------------------------------
(* C16 *)

\* the part of a VerifyCertificate result that concerns the certificate: the
\* error, the returned boolean and the value written under certificateID
CertificateEffect(r, certificateID) ==
    [err |-> r.err, verified |-> r.verified,
     written |-> IF Exists(r.writes, certificateID)
                 THEN <<r.writes[certificateID]>> ELSE <<>>]

\* C16: VerifyCertificate needs no organizational credential: in the same world
\* state and with the same arguments its return value and its effect on the
\* certificate are the same for every calling organization, a caller of no
\* recognised organization included.
C16_VerifyCertificateIgnoresCaller ==
    \A certificateID \in IDs, certHash \in SuppliedHashes, now \in Readings(2) :
        LET unidentified ==
                CertificateEffect(VerifyCertificate(world, Ctx(Unidentified), now,
                                                    certificateID, certHash),
                                  certificateID)
        IN \A caller \in Callers :
               CertificateEffect(VerifyCertificate(world, Ctx(caller), now,
                                                   certificateID, certHash),
                                 certificateID) = unidentified

\* a caller of no recognised organization verified an issued certificate and
\* its verification was counted
C16_Witness ==
    /\ last.op = "VerifyCertificate"
    /\ last.org = Outsider.org
    /\ last.verified
    /\ IssuedCertificate(world, last.id)
    /\ VerificationCount(world, last.id) >= 1

---------------------------------------------------------------------------
(* C17 *)

\* the clock readings a stored RFC3339 timestamp may stand for
InstantsOf(timestamp) ==
    {t \in 0..(2 * TicksPerSecond - 1) : FormatRFC3339(t) = timestamp}

\* C17: for every stored Certificate, certificateHash is the hash of its
\* certificateID, its studentID and the issuance timestamp persisted in the
\* same record, not of a separate clock reading.
C17_HashOfPersistedTimestamp ==
    \A k \in DOMAIN world :
        IssuedCertificate(world, k) =>
            \E t \in InstantsOf(world[k].issuedDate) :
                world[k].certificateHash =
                    generateCertificateHash(world[k].certificateId,
                                            world[k].studentId, t)

---------------------------------------------------------------------------
(* C18 *)

\* C18: the execution of a transaction is deterministic across nodes: the same
\* handler with the same arguments on the same world state yields the same
\* result and the same write-set on both peers (the same SGPA, the same
\* certificateHash).
C18_SameResultOnBothNodes ==
    "resultA" \in DOMAIN last => last.resultA = last.resultB

---------------------------------------------------------------------------
(* C19, C20 *)

\* C19: GetStudentRecords(studentID) returns exactly the AcademicRecords created
\* for studentID, so after a successful CreateAcademicRecord(recordID,
\* studentID, ...) it returns that record.
C19_StudentRecordsListed ==
    \A studentID \in IDs :
        {r.recordId : r \in GetStudentRecords(world, studentID)}
        = {k \in DOMAIN world :
              RecordAt(world, k) /\ world[k].studentId = studentID}

\* C20: GetAuditLog(recordID) returns every AuditLog entry written for recordID
\* and only those (the order of the entries is not stated here).
C20_AuditLogListed ==
    \A recordID \in IDs :
        {l.logId : l \in GetAuditLog(world, recordID)}
        = {k \in AuditKeys(world) : world[k].recordId = recordID}

---------------------------------------------------------------------------
(* C21, C22 *)

\* C21: GetAllStudents returns exactly one entry per stored Student and skips
\* every key whose value is an AcademicRecord, a Certificate or an AuditLog.
C21_AllStudentsOnlyStudents ==
    DOMAIN GetAllStudents(world) = {k \in DOMAIN world : IsStudentJSON(world[k])}

\* C22: GetStudentCertificates(studentID) returns exactly the Certificates
\* issued for studentID and no value of another entity type, even one that
\* carries the same studentID.
C22_StudentCertificatesOnlyCertificates ==
    \A studentID \in IDs :
        DOMAIN GetStudentCertificates(world, studentID)
        = {k \in DOMAIN world :
              IsCertificateJSON(world[k]) /\ world[k].studentId = studentID}

---------------------------------------------------------------------------
(* C23 *)

CreateOps == {"CreateStudent", "CreateAcademicRecord", "IssueCertificate"}

\* C23: a create handler (CreateStudent, CreateAcademicRecord, IssueCertificate)
\* called for a key that already exists fails and leaves the stored value
\* unchanged.
C23_CreateOnExistingKeyFails ==
    [][(last'.op \in CreateOps /\ Exists(world, last'.id)) =>
          /\ last'.err # "none"
          /\ world'[last'.id] = world[last'.id]]_vars

---------------------------------------------------------------------------
(* C24, C25 *)

PrimaryWriteRefused(l) ==
    l.op \in GatedOps /\ (l.id = "" \/ l.id \in l.refused)

\* C25: a store write failure is fatal to the transaction: if PutState of the
\* primary entity fails during a mutating handler, the handler returns an error
\* instead of a success result.
C25_PrimaryWriteFailureIsError ==
    [][PrimaryWriteRefused(last') => last'.err # "none"]_vars

---------------------------------------------------------------------------
(* C26 *)

\* the positions in the chain of the VerifyCertificate transactions that
\* returned true for certificateID
VerifiedTrueAt(certificateID) ==
    {i \in 1..Len(chain) :
        /\ chain[i].tx.op = "VerifyCertificate"
        /\ chain[i].tx.id = certificateID
        /\ chain[i].tx.result.verified}

\* the version of k the transaction read, -1 when it did not read k
ReadVersion(t, k) == IF k \in DOMAIN t.reads THEN t.reads[k] ELSE -1

\* the position of the committed issuance the stored certificate comes from
IssuedAt(certificateID) ==
    LET issues == {i \in 1..Len(chain) :
                      /\ chain[i].valid
                      /\ chain[i].tx.op = "IssueCertificate"
                      /\ chain[i].tx.id = certificateID}
    IN IF issues = {} THEN 0 ELSE CHOOSE i \in issues : \A j \in issues : j <= i

---------------------------------------------------------------------------
(* C27 *)

\* the response says the certificate is verified
ReportsVerified(outcome) == ~outcome.threw /\ outcome.verified

\* C27: whether FabricService forwards to the ledger or answers with the demo
\* responder, VerifyCertificate reports verified only for an issued certificate
\* with the matching hash, and CreateStudent for an existing studentID fails.
C27_SameOutcomeInBothModes ==
    [][/\ (last'.op = "VerifyCertificate" /\ ReportsVerified(last'.outcome)) =>
              /\ IssuedCertificate(world, last'.id)
              /\ world[last'.id].certificateHash = last'.args[1]
       /\ (last'.op = "CreateStudent" /\ Exists(world, last'.id)) =>
              last'.outcome.threw]_vars

---------------------------------------------------------------------------
(* C28 *)

\* C28: the read handlers GetStudent, GetAllStudents, GetAcademicRecord,
\* GetStudentRecords, GetCertificate, GetStudentCertificates and GetAuditLog
\* leave the whole world state unchanged and write no audit entry, whatever
\* they return.
C28_ReadsWriteNothing ==
    [][last'.op \in ReadOps =>
          world' = world /\ AuditKeys(world') = AuditKeys(world)]_vars

\* a stored Student was read with no error, and one audit entry, the one of its
\* creation, is stored
C28_Witness ==
    /\ last.op = "GetStudent"
    /\ last.err = "none"
    /\ StudentAt(world, last.id)
    /\ Cardinality(AuditKeys(world)) = 1

---------------------------------------------------------------------------
(* C29 *)

GatedRoutes == {"POST /", "PUT /:studentId", "PATCH /:studentId/status"}

\* C29: a request reaches the student-creating, student-updating or
\* status-updating controller only with a valid token whose mspID is
\* NITWarangalMSP; with no token or an invalid one it is answered 401, from
\* another organization 403, and then the controller does not run and the
\* stored students do not change.
C29_GatedRoutesNeedNITToken ==
    [][last'.op \in GatedRoutes =>
          /\ last'.controllerRan => (last'.token = "valid" /\ last'.org = NIT)
          /\ last'.token \in {"none", "invalid"} =>
                (last'.status = 401 /\ ~last'.controllerRan /\ students' = students)
          /\ (last'.token = "valid" /\ last'.org # NIT) =>
                (last'.status = 403 /\ ~last'.controllerRan /\ students' = students)]_vars

\* a member of the departments asked to change the status of a stored student
\* and was answered 403
C29_Witness ==
    /\ last.op = "PATCH /:studentId/status"
    /\ last.token = "valid"
    /\ last.org = DEPT
    /\ last.status = 403
    /\ FindIndex(students, last.id) # 0

---------------------------------------------------------------------------
(* C30 *)

\* the stored audit entries written for recordID
AuditKeysOf(w, recordID) == {k \in AuditKeys(w) : w[k].recordId = recordID}

\* C30: the audit entry of a successful mutation is stored under a logID that
\* no earlier audit entry of the same recordID has, also when the clock reads
\* the same value as at the earlier write.
C30_AuditLogIDsDistinct ==
    [][SuccessfulMutation(last') =>
          \E k \in AuditKeysOf(world', last'.id) : k \notin AuditKeysOf(world, last'.id)]_vars

---------------------------------------------------------------------------
(* C31 *)

\* C31: ApproveAcademicRecord and VerifyAcademicRecord return an error and
\* change nothing whenever no AcademicRecord is stored under recordID, also
\* when that key holds a Student, a Certificate or an AuditLog.
C31_ApproveVerifyNeedRecord ==
    [][(/\ last'.op \in {"ApproveAcademicRecord", "VerifyAcademicRecord"}
        /\ ~RecordAt(world, last'.id))
          => (last'.err # "none" /\ world' = world)]_vars

---------------------------------------------------------------------------
(* C32 *)

\* C32: CreateAcademicRecord returns an error and writes neither a record nor
\* an audit entry when studentID does not name an existing Student or when
\* courses does not parse; on success the record is stored with status
\* SUBMITTED, createdBy equal to the calling organization and empty approvedBy
\* and verifiedBy.
C32_CreateAcademicRecordChecked ==
    [][last'.op = "CreateAcademicRecord" =>
          /\ (\/ ~StudentAt(world, last'.args[1])
              \/ UnmarshalCourses(last'.args[4]).err)
                => (last'.err # "none" /\ world' = world)
          /\ last'.err = "none" =>
                /\ RecordAt(world', last'.id)
                /\ world'[last'.id].status = "SUBMITTED"
                /\ world'[last'.id].createdBy = last'.org
                /\ world'[last'.id].approvedBy = ""
                /\ world'[last'.id].verifiedBy = ""]_vars

---------------------------------------------------------------------------
(* C33 *)

\* the fields of an AcademicRecord that approval and verification leave alone
RecordContent == {"recordId", "studentId", "semester", "year", "courses", "sgpa",
                  "createdBy"}

\* C33: each stored AcademicRecord's SGPA equals the SGPA computed from its own
\* stored courses, and ApproveAcademicRecord and VerifyAcademicRecord leave
\* recordID, studentID, semester, year, courses, SGPA and createdBy of the
\* record they act on unchanged.
C33_SGPAFollowsStoredCourses ==
    [][/\ \A k \in DOMAIN world' :
              RecordAt(world', k) => world'[k].sgpa = calculateSGPA(world'[k].courses)
       /\ (/\ last'.op \in {"ApproveAcademicRecord", "VerifyAcademicRecord"}
           /\ last'.err = "none"
           /\ RecordAt(world, last'.id))
             => /\ RecordAt(world', last'.id)
                /\ \A f \in RecordContent :
                      world'[last'.id][f] = world[last'.id][f]]_vars

\* a record with courses went through approval and verification
C33_Witness ==
    /\ last.op = "VerifyAcademicRecord"
    /\ last.err = "none"
    /\ RecordAt(world, last.id)
    /\ world[last.id].status = "VERIFIED"
    /\ world[last.id].approvedBy = NIT
    /\ world[last.id].courses # <<>>
    /\ world[last.id].sgpa = 857

---------------------------------------------------------------------------
(* C34 *)

\* C34: a stored record with status VERIFIED has createdBy equal to the
\* department organization, approvedBy equal to the issuing university's
\* organization and verifiedBy equal to the verifier organization, and a
\* stored record with status APPROVED has approvedBy equal to the issuing
\* university's organization.
C34_EachStepStamped ==
    \A k \in DOMAIN world :
        RecordAt(world, k) =>
            /\ world[k].status = "VERIFIED" =>
                  /\ world[k].createdBy = DEPT
                  /\ world[k].approvedBy = NIT
                  /\ world[k].verifiedBy = VERIFIERS
            /\ world[k].status = "APPROVED" => world[k].approvedBy = NIT

---------------------------------------------------------------------------
(* C35 *)

\* C35: each stored Certificate's studentID names an existing Student:
\* IssueCertificate for a studentID under which no Student is stored fails
\* with a not-found error and creates no certificate.
C35_CertificateNamesStoredStudent ==
    [][last'.op = "IssueCertificate" =>
          /\ ~StudentAt(world, last'.args[1]) =>
                (last'.err = "NotFoundError" /\ world' = world)
          /\ \A k \in DOMAIN world' :
                IssuedCertificate(world', k) => StudentAt(world', world'[k].studentId)]_vars

---------------------------------------------------------------------------
(* C36 *)

\* C36: no handler changes the status of an issued certificate: the value
\* stored under a certificateID written by IssueCertificate keeps status
\* ISSUED whatever handler runs next.
C36_IssuedStatusKept ==
    [][\A k \in IDs :
          IssuedCertificate(world, k) =>
              /\ Exists(world', k)
              /\ UnmarshalCertificate(world'[k]).status = "ISSUED"]_vars

---------------------------------------------------------------------------
(* C37 *)

\* the Message member of the demo responder's objects
DemoMessages == {"Certificate issued and recorded on blockchain",
                 "Certificate verified on blockchain"}

\* C37: initialize() returns normally, with isConnected false unless the
\* gateway connected; while isConnected is false submitTransaction and
\* evaluateTransaction return the demo response and leave the ledger alone;
\* a call uses a real contract only when isConnected is true.
C37_DemoModeFallback ==
    [][/\ last'.op = "initialize" =>
             /\ ~last'.outcome.threw
             /\ last'.env # "connected" => ~fabric'.isConnected
       /\ last'.op \in {"submitTransaction", "evaluateTransaction"} =>
             /\ last'.usedContract => fabric.isConnected
             /\ ~fabric.isConnected =>
                   /\ ~last'.usedContract
                   /\ ~last'.outcome.threw
                   /\ last'.outcome.kind = "object"
                   /\ last'.outcome.body[1].Message \in DemoMessages
                   /\ world' = world]_vars

\* the service was connected and cached its contract, a later initialize()
\* failed, and the next submitTransaction was answered by the demo responder
C37_Witness ==
    /\ last.op = "submitTransaction"
    /\ fabric.contract
    /\ ~fabric.isConnected
    /\ ~last.usedContract
    /\ last.outcome.body[1].Message \in DemoMessages

---------------------------------------------------------------------------
(* C38 *)

\* the same certificate, apart from what the post-submission update sets
SameCertificate(c, d) ==
    /\ c.id = d.id
    /\ c.studentID = d.studentID
    /\ c.verificationCode = d.verificationCode

\* C38: when generateCertificate requests interleave at their awaits no
\* certificate is lost: every certificate in certificates.json is still there
\* after each step of each request, and a request's post-submission update
\* changes only the entry that request appended.
C38_NoCertificateLost ==
    [][/\ \A i \in 1..Len(certificates) :
              /\ i <= Len(certificates')
              /\ SameCertificate(certificates'[i], certificates[i])
       /\ last'.op = "submitted" =>
              \A i \in 1..Len(certificates) :
                  certificates'[i] # certificates[i] => i = requests[last'.request].index]_vars

---------------------------------------------------------------------------
(* C40 *)

\* C40: a verification code identifies at most one certificate: no two
\* certificates in certificates.json share a verificationCode, and
\* verifyCertificate(code) answers with a certificate that has that code.
C40_CodeIdentifiesOneCertificate ==
    /\ \A i, j \in 1..Len(certificates) :
          i # j => certificates[i].verificationCode # certificates[j].verificationCode
    /\ (last.op = "verifyCertificate" /\ last.status = 200) =>
          last.certificate.verificationCode = last.id

---------------------------------------------------------------------------
(* C39 *)

\* the list without its i-th element
Without(list, i) == SubSeq(list, 1, i - 1) \o SubSeq(list, i + 1, Len(list))

\* C39: the record store holds at most one record per (studentId, semester,
\* academicYear); adding a record whose key is stored replaces that record in
\* place; deleteAcademicRecord removes exactly the record with the key, and
\* returns false and changes nothing when there is none.
C39_OneRecordPerKey ==
    [][LET i == FindRecordIndex(records, last'.id, last'.semester, last'.academicYear)
       IN /\ \A j, k \in 1..Len(records') :
                (/\ records'[j].studentId = records'[k].studentId
                 /\ records'[j].semester = records'[k].semester
                 /\ records'[j].academicYear = records'[k].academicYear) => j = k
          /\ (last'.op = "addOrUpdateAcademicRecord" /\ i # 0) =>
                /\ Len(records') = Len(records)
                /\ FindRecordIndex(records', last'.id, last'.semester,
                                   last'.academicYear) = i
                /\ records'[i].updatedAt = TimeString(clock')
                /\ Without(records', i) = Without(records, i)
          /\ last'.op = "deleteAcademicRecord" =>
                IF i # 0 THEN last'.returned /\ records' = Without(records, i)
                ELSE ~last'.returned /\ records' = records]_vars

====
